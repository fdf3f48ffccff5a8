-------------------------- MODULE BufferPoolProofs ---------------------------
(***************************************************************************)
(* Whatever is fetched, copied, dropped, evicted and deleted, every frame  *)
(* is free or in the page table, pinned as often as guards hold it, and    *)
(* offered to the replacer if nobody does; for any number of frames,       *)
(* guards and pages.  The invariant has a part for each component: the     *)
(* replacer, the pool with it, the guards, the file, and what is kept      *)
(* where.                                                                  *)
(***************************************************************************)
EXTENDS BufferPoolManager, FiniteSetTheorems, SequenceTheorems,
        WellFoundedInduction, TLAPS

IsMap(f, A, B) == DOMAIN f \subseteq A /\ f \in [DOMAIN f -> B]

-----------------------------------------------------------------------------
(* The replacer.  Distances of pages differ, since the last times of       *)
(* access do; frame and distance lead to each other.                       *)
LruShape(l) ==
  l \in [time : {l.time}, history : {l.history}, evictable : {l.evictable},
         hint : {l.hint}]

HistoryOK(l) ==
  /\ l.time \in Nat
  /\ IsMap(l.history, PageIds, [1 .. K -> Nat])
  /\ \A p \in DOMAIN l.history :
       /\ \A i \in 1 .. K : l.history[p][i] <= l.time
       /\ l.history[p][K] > 0
  /\ \A p, q \in DOMAIN l.history : l.history[p][K] = l.history[q][K] => p = q

HintsOK(l) ==
  /\ IsMap(l.evictable, Nat \X Nat, Frames)
  /\ l.hint \in [Frames -> (Nat \X Nat) \cup {NoHint}]
  /\ \A d \in DOMAIN l.evictable : l.hint[l.evictable[d]] = d
  /\ \A f \in Frames : l.hint[f] # NoHint =>
       l.hint[f] \in DOMAIN l.evictable /\ l.evictable[l.hint[f]] = f

LruOK(l) == LruShape(l) /\ HistoryOK(l) /\ HintsOK(l)

LEMMA EmptyReplacerOK == LruOK(EmptyReplacer)
  BY DEF EmptyReplacer, LruOK, LruShape, HistoryOK, HintsOK, IsMap, NoHint

LEMMA HintIsNoPair == NoHint \notin Nat \X Nat
  BY DEF NoHint

LEMMA HistoryIsSeq ==
  ASSUME NEW h \in [1 .. K -> Nat], NEW t \in Nat
  PROVE  /\ Append(Tail(h), t) \in [1 .. K -> Nat]
         /\ Append(Tail(h), t)[K] = t
         /\ \A i \in 1 .. K : i # K => Append(Tail(h), t)[i] = h[i + 1]
         /\ Head(h) = h[1] /\ h[1] \in Nat /\ h[K] \in Nat
  <1>1. K \in Nat /\ K > 0
    BY ReplacerAssumption
  <1>2. h \in Seq(Nat) /\ Len(h) = K
    BY <1>1
  <1>3. h # <<>>
    BY <1>1, <1>2
  <1>4. /\ Tail(h) \in Seq(Nat) /\ Len(Tail(h)) = K - 1
        /\ \A i \in 1 .. K - 1 : Tail(h)[i] = h[i + 1]
    BY <1>1, <1>2, <1>3
  <1>5. /\ Append(Tail(h), t) \in Seq(Nat)
        /\ Len(Append(Tail(h), t)) = K
        /\ Append(Tail(h), t)[K] = t
        /\ \A i \in 1 .. K - 1 : Append(Tail(h), t)[i] = Tail(h)[i]
    BY <1>1, <1>4
  <1>6. Append(Tail(h), t) \in [1 .. K -> Nat]
    BY <1>1, <1>5, LenProperties
  <1>7. Head(h) = h[1] /\ h[1] \in Nat /\ h[K] \in Nat
    BY <1>1, <1>2, <1>3
  <1>8. \A i \in 1 .. K : i # K => i \in 1 .. K - 1
    BY <1>1
  <1> QED
    BY <1>4, <1>5, <1>6, <1>7, <1>8

LEMMA NeverAccessedOK == NeverAccessed \in [1 .. K -> Nat]
  BY DEF NeverAccessed

LEMMA RecordAccessOK ==
  ASSUME NEW l, LruOK(l), NEW page \in PageIds
  PROVE  LET m == RecordAccess(l, page)
         IN /\ LruOK(m)
            /\ m.evictable = l.evictable /\ m.hint = l.hint
            /\ DOMAIN m.history = DOMAIN l.history \cup {page}
            /\ \A p \in DOMAIN l.history \ {page} : m.history[p] = l.history[p]
  <1> DEFINE h == History(l, page)
             accessed == Append(Tail(h), l.time + 1)
             m == RecordAccess(l, page)
  <1>1. h \in [1 .. K -> Nat] /\ \A i \in 1 .. K : h[i] <= l.time
    BY NeverAccessedOK DEF History, LruOK, HistoryOK, IsMap, NeverAccessed
  <1>2. l.time \in Nat /\ l.time + 1 \in Nat
    BY DEF LruOK, HistoryOK
  <1>5. /\ m.time = l.time + 1
        /\ m.history = [p \in DOMAIN l.history \cup {page} |->
                          IF p = page THEN accessed ELSE l.history[p]]
        /\ m.evictable = l.evictable /\ m.hint = l.hint
        /\ LruShape(m)
    BY DEF RecordAccess, LruOK, LruShape
  <1> HIDE DEF h
  <1>3. /\ accessed \in [1 .. K -> Nat] /\ accessed[K] = l.time + 1
        /\ \A i \in 1 .. K : i # K => accessed[i] = h[i + 1]
    BY <1>1, <1>2, HistoryIsSeq
  <1>4. \A i \in 1 .. K : accessed[i] <= l.time + 1
    <2> SUFFICES ASSUME NEW i \in 1 .. K PROVE accessed[i] <= l.time + 1
      OBVIOUS
    <2>1. i # K => i + 1 \in 1 .. K
      BY ReplacerAssumption
    <2>2. \A j \in 1 .. K : h[j] \in Nat /\ h[j] <= l.time + 1
      BY <1>1, <1>2
    <2>3. CASE i = K
      BY <1>2, <1>3, <2>3
    <2>4. CASE i # K
      BY <1>3, <2>1, <2>2, <2>4
    <2> QED
      BY <2>3, <2>4
  <1> HIDE DEF accessed, m
  <1>6. HistoryOK(m)
    <2>1. IsMap(m.history, PageIds, [1 .. K -> Nat])
      BY <1>3, <1>5 DEF LruOK, HistoryOK, IsMap
    <2>2. ASSUME NEW p \in DOMAIN l.history
          PROVE  /\ l.history[p] \in [1 .. K -> Nat]
                 /\ l.history[p][K] \in Nat /\ l.history[p][K] <= l.time
      BY ReplacerAssumption DEF LruOK, HistoryOK, IsMap
    <2>3. \A p \in DOMAIN m.history :
            /\ \A i \in 1 .. K : m.history[p][i] <= m.time
            /\ m.history[p][K] > 0
      <3> SUFFICES ASSUME NEW p \in DOMAIN m.history
                   PROVE  /\ \A i \in 1 .. K : m.history[p][i] <= m.time
                          /\ m.history[p][K] > 0
        OBVIOUS
      <3>1. CASE p = page
        BY <1>2, <1>3, <1>4, <1>5, <3>1
      <3>2. CASE p # page
        <4>1. p \in DOMAIN l.history /\ m.history[p] = l.history[p]
          BY <1>5, <3>2
        <4>2. \A i \in 1 .. K : l.history[p][i] \in Nat /\ l.history[p][i] <= l.time
          BY <2>2, <4>1 DEF LruOK, HistoryOK
        <4> QED
          BY <1>2, <1>5, <4>1, <4>2 DEF LruOK, HistoryOK
      <3> QED
        BY <3>1, <3>2
    <2>4. \A p, q \in DOMAIN m.history : m.history[p][K] = m.history[q][K] => p = q
      BY <1>2, <1>3, <1>5, <2>2 DEF LruOK, HistoryOK
    <2> QED
      BY <1>2, <1>5, <2>1, <2>3, <2>4 DEF HistoryOK
  <1>7. HintsOK(m)
    BY <1>5 DEF LruOK, HintsOK
  <1>8. LruShape(m)
    BY <1>5 DEF LruShape
  <1> QED
    BY <1>5, <1>6, <1>7, <1>8 DEF LruOK, m

LEMMA DistanceOfPage ==
  ASSUME NEW l, LruOK(l), NEW page \in DOMAIN l.history
  PROVE  /\ GetKDistance(l, page) = <<l.history[page][1], l.history[page][K]>>
         /\ GetKDistance(l, page) \in Nat \X Nat
  <1>1. l.history[page] \in [1 .. K -> Nat]
    BY DEF LruOK, HistoryOK, IsMap
  <1>2. /\ Head(l.history[page]) = l.history[page][1]
        /\ l.history[page][1] \in Nat /\ l.history[page][K] \in Nat
    BY <1>1, HistoryIsSeq
  <1> QED
    BY <1>2 DEF GetKDistance, History

(* Two pages are never equally far.                                        *)
LEMMA DistancesDiffer ==
  ASSUME NEW l, LruOK(l), NEW p \in DOMAIN l.history, NEW q \in DOMAIN l.history,
         GetKDistance(l, p) = GetKDistance(l, q)
  PROVE  p = q
  <1>1. l.history[p][K] = l.history[q][K]
    BY DistanceOfPage
  <1> QED
    BY <1>1 DEF LruOK, HistoryOK

LEMMA DistanceKept ==
  ASSUME NEW l, NEW m, NEW page, page \in DOMAIN l.history, page \in DOMAIN m.history,
         m.history[page] = l.history[page]
  PROVE  GetKDistance(m, page) = GetKDistance(l, page)
  BY DEF GetKDistance, History

LEMMA SetNonevictableOK ==
  ASSUME NEW l, LruOK(l), NEW frame \in Frames
  PROVE  LET m == SetNonevictable(l, frame)
         IN /\ LruOK(m)
            /\ m.history = l.history
            /\ m.hint = [l.hint EXCEPT ![frame] = NoHint]
  <1> DEFINE m == SetNonevictable(l, frame)
  <1>1. /\ LruShape(m) /\ m.time = l.time /\ m.history = l.history
        /\ m.hint = [l.hint EXCEPT ![frame] = NoHint]
        /\ m.evictable = [d \in DOMAIN l.evictable \ {l.hint[frame]} |-> l.evictable[d]]
    BY DEF SetNonevictable, Without, LruOK, LruShape
  <1> HIDE DEF m
  <1>2. HistoryOK(m)
    BY <1>1 DEF LruOK, HistoryOK
  <1>3. HintsOK(m)
    <2>1. IsMap(m.evictable, Nat \X Nat, Frames)
      BY <1>1 DEF LruOK, HintsOK, IsMap
    <2>2. m.hint \in [Frames -> (Nat \X Nat) \cup {NoHint}]
      BY <1>1 DEF LruOK, HintsOK
    <2>3. ASSUME NEW d \in DOMAIN m.evictable PROVE m.hint[m.evictable[d]] = d
      BY <1>1 DEF LruOK, HintsOK
    <2>4. ASSUME NEW f \in Frames, m.hint[f] # NoHint
          PROVE  m.hint[f] \in DOMAIN m.evictable /\ m.evictable[m.hint[f]] = f
      BY <1>1, <2>4 DEF LruOK, HintsOK
    <2> QED
      BY <2>1, <2>2, <2>3, <2>4 DEF HintsOK
  <1> QED
    BY <1>1, <1>2, <1>3 DEF LruOK, m

(* If no other frame is there under the same distance.                     *)
LEMMA SetEvictableOK ==
  ASSUME NEW l, LruOK(l), NEW frame \in Frames, NEW page \in DOMAIN l.history,
         l.hint[frame] = NoHint, GetKDistance(l, page) \notin DOMAIN l.evictable
  PROVE  LET m == SetEvictable(l, frame, page)
         IN /\ LruOK(m)
            /\ m.history = l.history
            /\ m.hint = [l.hint EXCEPT ![frame] = GetKDistance(l, page)]
  <1> DEFINE m == SetEvictable(l, frame, page)
             distance == GetKDistance(l, page)
  <1>1. Without(l.evictable, l.hint[frame]) = l.evictable
    BY HintIsNoPair DEF Without, LruOK, HintsOK, IsMap
  <1>2. distance \in Nat \X Nat
    BY DistanceOfPage
  <1>3. /\ LruShape(m) /\ m.time = l.time /\ m.history = l.history
        /\ m.hint = [l.hint EXCEPT ![frame] = distance]
        /\ m.evictable = [d \in DOMAIN l.evictable \cup {distance} |->
                            IF d \in DOMAIN l.evictable THEN l.evictable[d] ELSE frame]
    <2> HIDE DEF distance
    <2> QED
      BY <1>1 DEF SetEvictable, distance, LruOK, LruShape
  <1> HIDE DEF m, distance
  <1>4. HistoryOK(m)
    BY <1>3 DEF LruOK, HistoryOK
  <1>5. HintsOK(m)
    <2>0. distance \notin DOMAIN l.evictable /\ distance # NoHint
      BY <1>2, HintIsNoPair DEF distance
    <2>1. IsMap(m.evictable, Nat \X Nat, Frames)
      BY <1>2, <1>3 DEF LruOK, HintsOK, IsMap
    <2>2. m.hint \in [Frames -> (Nat \X Nat) \cup {NoHint}]
      BY <1>2, <1>3 DEF LruOK, HintsOK
    <2>3. ASSUME NEW d \in DOMAIN m.evictable PROVE m.hint[m.evictable[d]] = d
      <3>1. CASE d = distance
        BY <1>3, <2>0, <3>1 DEF LruOK, HintsOK
      <3>2. CASE d # distance
        <4>1. /\ d \in DOMAIN l.evictable /\ m.evictable[d] = l.evictable[d]
              /\ l.hint[l.evictable[d]] = d /\ l.evictable[d] \in Frames
              /\ d # NoHint
          BY <1>3, <3>2, HintIsNoPair DEF LruOK, HintsOK, IsMap
        <4> QED
          BY <1>3, <4>1 DEF LruOK, HintsOK
      <3> QED
        BY <3>1, <3>2
    <2>4. ASSUME NEW f \in Frames, m.hint[f] # NoHint
          PROVE  m.hint[f] \in DOMAIN m.evictable /\ m.evictable[m.hint[f]] = f
      <3>1. CASE f = frame
        BY <1>3, <2>0, <3>1 DEF LruOK, HintsOK
      <3>2. CASE f # frame
        BY <1>3, <2>0, <2>4, <3>2 DEF LruOK, HintsOK
      <3> QED
        BY <3>1, <3>2
    <2> QED
      BY <2>1, <2>2, <2>3, <2>4 DEF HintsOK
  <1> QED
    BY <1>3, <1>4, <1>5 DEF LruOK, m, distance

LEMMA ForgetOK ==
  ASSUME NEW l, LruOK(l), NEW frame \in Frames, NEW page
  PROVE  LET m == Forget(l, frame, page)
         IN /\ LruOK(m)
            /\ DOMAIN m.history = DOMAIN l.history \ {page}
            /\ \A p \in DOMAIN m.history : m.history[p] = l.history[p]
            /\ m.hint = [l.hint EXCEPT ![frame] = NoHint]
  <1> DEFINE w == SetNonevictable(l, frame)
             m == Forget(l, frame, page)
  <1>1. /\ LruOK(w) /\ w.history = l.history
        /\ w.hint = [l.hint EXCEPT ![frame] = NoHint]
    BY SetNonevictableOK
  <1>2. LruShape(w)
    BY <1>1 DEF LruOK
  <1> HIDE DEF w
  <1>3. /\ LruShape(m) /\ m.time = w.time /\ m.evictable = w.evictable
        /\ m.hint = w.hint
        /\ m.history = [p \in DOMAIN w.history \ {page} |-> w.history[p]]
    BY <1>2 DEF Forget, LruShape, w
  <1> HIDE DEF m
  <1>4. HistoryOK(m)
    BY <1>1, <1>3 DEF LruOK, HistoryOK, IsMap
  <1>5. HintsOK(m)
    BY <1>1, <1>3 DEF LruOK, HintsOK
  <1> QED
    BY <1>1, <1>3, <1>4, <1>5 DEF LruOK, m

LEMMA NatMin ==
  ASSUME NEW S \in SUBSET Nat, S # {}
  PROVE  \E x \in S : \A y \in S : x <= y
  <1>1. PICK x \in S : \A y \in S : ~(<<y, x>> \in OpToRel(<, Nat))
    BY NatLessThanWellFounded, WFMin
  <1>2. \A y \in S : ~(y < x)
    BY <1>1 DEF OpToRel
  <1> QED
    BY <1>2

LEMMA NearestExists ==
  ASSUME NEW S \in SUBSET (Nat \X Nat), S # {}
  PROVE  \E d \in S : \A e \in S : d = e \/ Less(d, e)
  <1>1. PICK a \in {d[1] : d \in S} : \A x \in {d[1] : d \in S} : a <= x
    <2>1. {d[1] : d \in S} \in SUBSET Nat /\ {d[1] : d \in S} # {}
      OBVIOUS
    <2> QED
      BY <2>1, NatMin
  <1> DEFINE T == {d \in S : d[1] = a}
  <1>2. PICK b \in {d[2] : d \in T} : \A x \in {d[2] : d \in T} : b <= x
    <2>1. {d[2] : d \in T} \in SUBSET Nat /\ {d[2] : d \in T} # {}
      BY <1>1
    <2> QED
      BY <2>1, NatMin
  <1>3. PICK d \in S : d[1] = a /\ d[2] = b
    BY <1>2
  <1>4. ASSUME NEW e \in S PROVE d = e \/ Less(d, e)
    <2>1. /\ d[1] \in Nat /\ d[2] \in Nat /\ e[1] \in Nat /\ e[2] \in Nat
          /\ d = <<d[1], d[2]>> /\ e = <<e[1], e[2]>>
      OBVIOUS
    <2>2. d[1] <= e[1]
      BY <1>1, <1>3
    <2>3. e[1] = a => b <= e[2]
      BY <1>2
    <2> QED
      BY <1>3, <2>1, <2>2, <2>3 DEF Less
  <1> QED
    BY <1>4

LEMMA VictimOK ==
  ASSUME NEW l, LruOK(l), CanEvict(l)
  PROVE  Victim(l) \in Frames /\ l.hint[Victim(l)] # NoHint
  <1>1. DOMAIN l.evictable \in SUBSET (Nat \X Nat) /\ DOMAIN l.evictable # {}
    BY DEF CanEvict, LruOK, HintsOK, IsMap
  <1> DEFINE d == CHOOSE d \in DOMAIN l.evictable :
                    \A e \in DOMAIN l.evictable : d = e \/ Less(d, e)
  <1>2. d \in DOMAIN l.evictable
    BY <1>1, NearestExists
  <1>3. Victim(l) = l.evictable[d]
    BY DEF Victim
  <1> HIDE DEF d
  <1> QED
    BY <1>1, <1>2, <1>3, HintIsNoPair DEF LruOK, HintsOK, IsMap

-----------------------------------------------------------------------------
(* The pool.                                                               *)
PageData == Int \X Int

FrameType ==
  [page_id : PageIds \cup {INVALID_PAGE_ID}, is_dirty : BOOLEAN,
   pin_count : Nat, data : PageData]

DiskType ==
  [size : 0 .. MaxPages, free_head : PageIds \cup {INVALID_PAGE_ID}, info : Int,
   pages : [PageIds -> PageData], length : 0 .. 2 * MaxPages, failed : BOOLEAN]

PoolShape(s) ==
  s \in [buffer : [Frames -> FrameType], page_table : {s.page_table},
         free_list : {s.free_list}, lru : {s.lru}, disk : DiskType]

(* A used frame is in the page table, and a free one empty and listed.     *)
FramesOK(s) ==
  /\ IsMap(s.page_table, PageIds, Frames)
  /\ \A p \in DOMAIN s.page_table : s.buffer[s.page_table[p]].page_id = p
  /\ \A f \in Frames : s.buffer[f].page_id # INVALID_PAGE_ID =>
       /\ s.buffer[f].page_id \in DOMAIN s.page_table
       /\ s.page_table[s.buffer[f].page_id] = f
  /\ \A f \in Frames : s.buffer[f].page_id = INVALID_PAGE_ID =>
       s.buffer[f] = EmptyFrame

FreeListOK(s) ==
  /\ s.free_list \in Seq(Frames)
  /\ \A i \in 1 .. Len(s.free_list) :
       s.buffer[s.free_list[i]].page_id = INVALID_PAGE_ID
  /\ \A i, j \in 1 .. Len(s.free_list) : s.free_list[i] = s.free_list[j] => i = j
  /\ \A f \in Frames : s.buffer[f].page_id = INVALID_PAGE_ID =>
       \E i \in 1 .. Len(s.free_list) : s.free_list[i] = f

(* The frames offered to the replacer are those used and not pinned.       *)
Offered(s, f) ==
  s.buffer[f].page_id # INVALID_PAGE_ID /\ s.buffer[f].pin_count = 0

OffersOK(s) ==
  /\ LruOK(s.lru)
  /\ DOMAIN s.page_table \subseteq DOMAIN s.lru.history
  /\ \A f \in Frames : s.lru.hint[f] =
       IF Offered(s, f) THEN GetKDistance(s.lru, s.buffer[f].page_id) ELSE NoHint

PoolOK(s) == PoolShape(s) /\ FramesOK(s) /\ FreeListOK(s) /\ OffersOK(s)

-----------------------------------------------------------------------------
(* The guards gs on the frames of a pool.                                  *)
Holds(gs, g) == gs[g].frame \in Frames /\ ~gs[g].stale

Holders(gs, f) == {g \in Guards : Holds(gs, g) /\ gs[g].frame = f}

GuardsOK(s, gs) ==
  /\ gs \in [Guards -> [frame : Frames \cup {-1},
                        page : PageIds \cup {INVALID_PAGE_ID}, stale : BOOLEAN]]
  /\ \A g \in Guards : gs[g] = NoGuard \/ gs[g].frame \in Frames
  /\ \A g \in Guards : Holds(gs, g) =>
       s.buffer[gs[g].frame].page_id = gs[g].page /\ gs[g].page \in PageIds
  /\ \A f \in Frames : s.buffer[f].pin_count = Cardinality(Holders(gs, f))

-----------------------------------------------------------------------------
(* The file.  free are the pages on the free list, all of them below size_;*)
(* unless the stream failed, their first words lead from the head along    *)
(* different pages to the end of the list.                                 *)
ChainOK(disk, free) ==
  /\ disk.free_head \in free \cup {INVALID_PAGE_ID}
  /\ \A p \in free : p < disk.size
  /\ ~disk.failed =>
       /\ \A p \in free : disk.pages[p][1] \in free \cup {INVALID_PAGE_ID}
       /\ \A p \in free : disk.pages[p][1] = disk.free_head =>
            disk.free_head = INVALID_PAGE_ID
       /\ \A p, q \in free : disk.pages[p][1] = disk.pages[q][1] =>
            p = q \/ disk.pages[p][1] = INVALID_PAGE_ID

FreeOK(s, used, free) ==
  /\ free \subseteq PageIds \ used
  /\ ChainOK(s.disk, free)
  /\ "delete" \notin Habits => \A p \in free : WholePage(s.disk, p)

UsedOK(s, used) ==
  /\ DOMAIN s.page_table \subseteq used
  /\ used \subseteq PageIds
  /\ \A p \in used : p < s.disk.size

(* What clients have last written is in a frame, and unless that is dirty  *)
(* in the file; what is not in a frame is in the file.                     *)
InFile(s, p, data) == WholePage(s.disk, p) /\ s.disk.pages[p] = data

Kept(s, p, data) ==
  IF Cached(s, p)
  THEN /\ s.buffer[s.page_table[p]].data = data
       /\ s.buffer[s.page_table[p]].is_dirty \/ InFile(s, p, data)
  ELSE InFile(s, p, data)

KeptOK(s, known) ==
  /\ ~s.disk.failed
  /\ \A p \in DOMAIN known : known[p] \in Nat \X Nat /\ Kept(s, p, known[p])

(* A page that was never written to is not in the file.                    *)
StoreOK(s, known) ==
  /\ UsedOK(s, DOMAIN known)
  /\ \E free \in SUBSET PageIds : FreeOK(s, DOMAIN known, free)
  /\ "untouched" \notin Habits => KeptOK(s, known)

(* A program that is started again has not lost a page before.             *)
Restartable == "exit" \in Habits => "delete" \notin Habits /\ "untouched" \notin Habits

PoolInv == PoolOK(pool) /\ GuardsOK(pool, guards) /\ StoreOK(pool, latest)

-----------------------------------------------------------------------------
(* What the operations of the file leave as it was.                        *)
LEMMA PageIdsAreNat == PageIds \subseteq Nat /\ INVALID_PAGE_ID \notin PageIds
                       /\ MaxPages \in Nat
  BY PoolAssumption DEF PageIds, INVALID_PAGE_ID

LEMMA PageOrNoneIsInt ==
  ASSUME NEW p \in PageIds \cup {INVALID_PAGE_ID}
  PROVE  p \in Int
  BY PoolAssumption DEF PageIds, INVALID_PAGE_ID

LEMMA WriteFrameOK ==
  ASSUME NEW d \in DiskType, NEW p \in PageIds, NEW data \in PageData
  PROVE  LET m == WriteFrame(d, p, data)
         IN /\ m \in DiskType
            /\ m.size = d.size /\ m.free_head = d.free_head /\ m.failed = d.failed
            /\ d.failed => m = d
            /\ ~d.failed => /\ m.pages = [d.pages EXCEPT ![p] = data]
                            /\ m.length = MaxOf(d.length, 2 * p + 2)
  <1>1. MaxOf(d.length, 2 * p + 2) \in 0 .. 2 * MaxPages
    BY PoolAssumption DEF MaxOf, DiskType, PageIds
  <1> QED
    BY <1>1 DEF WriteFrame, DiskType

LEMMA ReadFrameOK ==
  ASSUME NEW d \in DiskType, NEW p \in PageIds
  PROVE  LET m == ReadFrame(d, p)
         IN /\ m \in DiskType
            /\ m.size = d.size /\ m.free_head = d.free_head
            /\ m.pages = d.pages /\ m.length = d.length
            /\ m.failed = (d.failed \/ ~WholePage(d, p))
            /\ DataRead(d, p) \in PageData
  <1>1. WholePage(d, p) \in BOOLEAN
    BY DEF WholePage
  <1>2. DataRead(d, p) \in PageData
    BY DEF DataRead, DiskType, PageData, Zeros, WholePage
  <1> QED
    BY <1>1, <1>2 DEF ReadFrame, DiskType

LEMMA AllocateFrameOK ==
  ASSUME NEW d \in DiskType, NextPage(d) \in PageIds,
         d.free_head # INVALID_PAGE_ID /\ ~d.failed =>
           d.pages[d.free_head][1] \in PageIds \cup {INVALID_PAGE_ID}
  PROVE  LET m == AllocateFrame(d)
         IN /\ m \in DiskType
            /\ m.pages = d.pages /\ m.length = d.length /\ m.failed = d.failed
            /\ d.free_head = INVALID_PAGE_ID =>
                 m.size = d.size + 1 /\ m.free_head = INVALID_PAGE_ID
            /\ d.free_head # INVALID_PAGE_ID =>
                 /\ m.size = d.size
                 /\ m.free_head = IF d.failed THEN INVALID_PAGE_ID
                                  ELSE d.pages[d.free_head][1]
  <1>1. d.free_head = INVALID_PAGE_ID => d.size + 1 \in 0 .. MaxPages
    BY PoolAssumption DEF NextPage, PageIds, DiskType
  <1> QED
    BY <1>1 DEF AllocateFrame, DiskType, INVALID_PAGE_ID

LEMMA DeallocateFrameOK ==
  ASSUME NEW d \in DiskType, NEW p \in PageIds
  PROVE  LET m == DeallocateFrame(d, p)
         IN /\ m \in DiskType
            /\ m.size = d.size /\ m.free_head = p /\ m.failed = d.failed
            /\ d.failed => m.pages = d.pages /\ m.length = d.length
            /\ ~d.failed =>
                 /\ m.pages = [d.pages EXCEPT ![p] = <<d.free_head, @[2]>>]
                 /\ m.length = MaxOf(d.length, 2 * p + 1)
  <1>1. MaxOf(d.length, 2 * p + 1) \in 0 .. 2 * MaxPages
    BY PoolAssumption DEF MaxOf, DiskType, PageIds
  <1>2. d.free_head \in Int /\ d.pages[p][2] \in Int
    <2>1. d.pages[p] \in PageData
      BY DEF DiskType
    <2>2. d.pages[p][2] \in Int
      BY <2>1 DEF PageData
    <2>3. d.free_head \in PageIds \cup {INVALID_PAGE_ID}
      BY DEF DiskType
    <2> QED
      BY <2>2, <2>3, PageOrNoneIsInt
  <1> DEFINE freed == [d EXCEPT !.free_head = p]
  <1>3. /\ freed \in DiskType /\ freed.size = d.size /\ freed.free_head = p
        /\ freed.failed = d.failed /\ freed.pages = d.pages /\ freed.length = d.length
    BY DEF DiskType
  <1>4. [d.pages EXCEPT ![p] = <<d.free_head, @[2]>>] \in [PageIds -> PageData]
    BY <1>2 DEF DiskType, PageData
  <1> HIDE DEF freed
  <1> QED
    BY <1>1, <1>3, <1>4 DEF DeallocateFrame, freed, DiskType

LEMMA NewDiskOK == NewDisk \in DiskType
  BY PoolAssumption DEF NewDisk, DiskType, PageData, Zeros, PageIds, INVALID_PAGE_ID

-----------------------------------------------------------------------------
(* The pool's operators, one after the other.                              *)
LEMMA EmptyFrameOK == EmptyFrame \in FrameType
  BY DEF EmptyFrame, FrameType, PageData, Zeros

LEMMA BufferFrame ==
  ASSUME NEW s, PoolOK(s), NEW f \in Frames
  PROVE  /\ s.buffer[f] \in FrameType
         /\ s.buffer[f].page_id \in PageIds \cup {INVALID_PAGE_ID}
         /\ s.buffer[f].data \in PageData
         /\ s.buffer[f].pin_count \in Nat
         /\ s.buffer[f].page_id # INVALID_PAGE_ID => s.buffer[f].page_id \in PageIds
  BY DEF PoolOK, PoolShape, FrameType

(* An unused frame is not pinned, and no two frames have the same page.    *)
LEMMA UsedFrame ==
  ASSUME NEW s, PoolOK(s), NEW f \in Frames
  PROVE  /\ s.buffer[f].page_id = INVALID_PAGE_ID =>
              s.buffer[f].pin_count = 0 /\ s.lru.hint[f] = NoHint
         /\ \A h \in Frames : s.buffer[f].page_id # INVALID_PAGE_ID
                              /\ s.buffer[h].page_id = s.buffer[f].page_id => h = f
         /\ s.buffer[f].page_id # INVALID_PAGE_ID =>
              s.buffer[f].page_id \in DOMAIN s.lru.history
  BY DEF PoolOK, FramesOK, OffersOK, EmptyFrame, Offered, IsMap

LEMMA WrittenBackOK ==
  ASSUME NEW s, PoolOK(s), NEW f \in Frames, s.buffer[f].page_id # INVALID_PAGE_ID
  PROVE  LET m == WrittenBack(s.disk, s.buffer[f])
         IN /\ m \in DiskType
            /\ m.size = s.disk.size /\ m.free_head = s.disk.free_head
            /\ m.failed = s.disk.failed
            /\ s.disk.failed \/ ~s.buffer[f].is_dirty => m = s.disk
            /\ ~s.disk.failed /\ s.buffer[f].is_dirty =>
                 /\ m.pages = [s.disk.pages EXCEPT ![s.buffer[f].page_id] = s.buffer[f].data]
                 /\ m.length = MaxOf(s.disk.length, 2 * s.buffer[f].page_id + 2)
  <1>1. s.disk \in DiskType
    BY DEF PoolOK, PoolShape
  <1>2. s.buffer[f].page_id \in PageIds /\ s.buffer[f].data \in PageData
    BY BufferFrame
  <1> QED
    BY <1>1, <1>2, WriteFrameOK DEF WrittenBack

LEMMA EnsureFreeListOK ==
  ASSUME NEW s, PoolOK(s), CanTakeFrame(s)
  PROVE  LET r == EnsureFreeList(s)
         IN /\ PoolOK(r) /\ r.free_list # <<>>
            /\ \/ r = s
               \/ \E f \in Frames :
                    /\ Offered(s, f)
                    /\ r.buffer = [s.buffer EXCEPT ![f] = EmptyFrame]
                    /\ r.page_table = Uncached(s, s.buffer[f].page_id)
                    /\ r.disk = WrittenBack(s.disk, s.buffer[f])
  <1> DEFINE r == EnsureFreeList(s)
             f == Victim(s.lru)
  <1>1. CASE s.free_list # <<>>
    BY <1>1 DEF EnsureFreeList
  <1>2. CASE s.free_list = <<>>
    <2>1. f \in Frames /\ s.lru.hint[f] # NoHint
      BY <1>2, VictimOK DEF CanTakeFrame, PoolOK, OffersOK
    <2>2. Offered(s, f)
      BY <2>1 DEF PoolOK, OffersOK
    <2> DEFINE page == s.buffer[f].page_id
    <2>3. page # INVALID_PAGE_ID /\ page \in PageIds
      BY <2>1, <2>2, BufferFrame DEF Offered
    <2>4. WrittenBack(s.disk, s.buffer[f]) \in DiskType
      BY <2>1, <2>3, WrittenBackOK
    <2>5. /\ r.buffer = [s.buffer EXCEPT ![f] = EmptyFrame]
          /\ r.page_table = Uncached(s, page)
          /\ r.free_list = <<f>>
          /\ r.lru = Evict(s.lru)
          /\ r.disk = WrittenBack(s.disk, s.buffer[f])
          /\ PoolShape(r)
      <3> HIDE DEF f
      <3> QED
        BY <1>2, <2>1, <2>4, EmptyFrameOK
        DEF EnsureFreeList, f, PoolOK, PoolShape
    <2>6. /\ LruOK(r.lru) /\ r.lru.history = s.lru.history
          /\ r.lru.hint = [s.lru.hint EXCEPT ![f] = NoHint]
      BY <2>1, <2>5, SetNonevictableOK DEF Evict, PoolOK, OffersOK
    <2> HIDE DEF f, r
    <2>7. FramesOK(r)
      <3>1. /\ DOMAIN r.page_table = DOMAIN s.page_table \ {page}
            /\ \A p \in DOMAIN r.page_table : r.page_table[p] = s.page_table[p]
            /\ IsMap(r.page_table, PageIds, Frames)
        BY <2>5 DEF Uncached, PoolOK, FramesOK, IsMap
      <3>2. /\ r.buffer[f] = EmptyFrame
            /\ \A h \in Frames : h # f => r.buffer[h] = s.buffer[h]
        BY <2>1, <2>5 DEF PoolOK, PoolShape
      <3>3. page \in DOMAIN s.page_table /\ s.page_table[page] = f
        BY <2>1, <2>3 DEF PoolOK, FramesOK
      <3>4. ASSUME NEW p \in DOMAIN r.page_table
            PROVE  r.buffer[r.page_table[p]].page_id = p
        BY <3>1, <3>2, <3>3 DEF PoolOK, FramesOK, IsMap
      <3>5. ASSUME NEW h \in Frames, r.buffer[h].page_id # INVALID_PAGE_ID
            PROVE  /\ r.buffer[h].page_id \in DOMAIN r.page_table
                   /\ r.page_table[r.buffer[h].page_id] = h
        BY <2>1, <2>3, <3>1, <3>2, <3>3, <3>5 DEF PoolOK, FramesOK, EmptyFrame
      <3>6. ASSUME NEW h \in Frames, r.buffer[h].page_id = INVALID_PAGE_ID
            PROVE  r.buffer[h] = EmptyFrame
        BY <3>2, <3>6 DEF PoolOK, FramesOK
      <3> QED
        BY <3>1, <3>4, <3>5, <3>6 DEF FramesOK
    <2>8. FreeListOK(r)
      BY <1>2, <2>1, <2>5 DEF PoolOK, FreeListOK, EmptyFrame, PoolShape
    <2>9. OffersOK(r)
      <3>1. DOMAIN r.page_table \subseteq DOMAIN r.lru.history
        BY <2>5, <2>6 DEF PoolOK, OffersOK, Uncached
      <3>2. ASSUME NEW h \in Frames
            PROVE  r.lru.hint[h] =
                     IF Offered(r, h) THEN GetKDistance(r.lru, r.buffer[h].page_id)
                     ELSE NoHint
        BY <2>1, <2>5, <2>6 DEF PoolOK, OffersOK, LruOK, HintsOK, Offered, EmptyFrame,
                                PoolShape, GetKDistance, History
      <3> QED
        BY <2>6, <3>1, <3>2 DEF OffersOK
    <2> QED
      BY <2>1, <2>2, <2>5, <2>7, <2>8, <2>9 DEF PoolOK, r, f
  <1> QED
    BY <1>1, <1>2

LEMMA LastAndFront ==
  ASSUME NEW list \in Seq(Frames), list # <<>>
  PROVE  /\ Len(list) \in 1 .. Len(list) /\ Seqs!Last(list) = list[Len(list)]
         /\ Seqs!Last(list) \in Frames
         /\ Seqs!Front(list) \in Seq(Frames) /\ Len(Seqs!Front(list)) = Len(list) - 1
         /\ \A i \in 1 .. Len(list) - 1 : Seqs!Front(list)[i] = list[i]
  BY DEF Seqs!Last, Seqs!Front

LEMMA FrameWithFields ==
  ASSUME NEW b, NEW p, NEW d, NEW c, NEW e,
         b \in [page_id : {p}, is_dirty : {d}, pin_count : {c}, data : {e}]
  PROVE  b = [page_id |-> p, is_dirty |-> d, pin_count |-> c, data |-> e]
  OBVIOUS

LEMMA FrameFilled ==
  ASSUME NEW b \in FrameType, NEW page, NEW data
  PROVE  [b EXCEPT !.page_id = page, !.pin_count = @ + 1, !.data = data] =
           [page_id |-> page, is_dirty |-> b.is_dirty, pin_count |-> b.pin_count + 1,
            data |-> data]
  <1> DEFINE m == [b EXCEPT !.page_id = page, !.pin_count = @ + 1, !.data = data]
  <1>1. m \in
          [page_id : {page}, is_dirty : {b.is_dirty}, pin_count : {b.pin_count + 1},
           data : {data}]
    BY DEF FrameType
  <1> HIDE DEF m
  <1>2. m = [page_id |-> page, is_dirty |-> b.is_dirty, pin_count |-> b.pin_count + 1,
             data |-> data]
    BY <1>1, FrameWithFields
  <1> QED
    BY <1>2 DEF m

LEMMA PutInFrameOK ==
  ASSUME NEW s, PoolOK(s), s.free_list # <<>>,
         NEW page \in PageIds, page \notin DOMAIN s.page_table, NEW data \in PageData
  PROVE  LET r == PutInFrame(s, page, data)
             f == Seqs!Last(s.free_list)
         IN /\ PoolOK(r)
            /\ f \in Frames /\ s.buffer[f] = EmptyFrame
            /\ r.buffer = [s.buffer EXCEPT ![f] =
                 [page_id |-> page, is_dirty |-> FALSE, pin_count |-> 1, data |-> data]]
            /\ r.page_table = WithEntry(s, page, f)
            /\ r.disk = s.disk
  <1> DEFINE f == Seqs!Last(s.free_list)
             filled == [page_id |-> page, is_dirty |-> FALSE, pin_count |-> 1,
                        data |-> data]
             r == PutInFrame(s, page, data)
  <1>1. /\ f = s.free_list[Len(s.free_list)] /\ f \in Frames
        /\ Len(s.free_list) \in 1 .. Len(s.free_list)
        /\ Seqs!Front(s.free_list) \in Seq(Frames)
        /\ Len(Seqs!Front(s.free_list)) = Len(s.free_list) - 1
        /\ \A i \in 1 .. Len(s.free_list) - 1 :
             Seqs!Front(s.free_list)[i] = s.free_list[i]
    BY LastAndFront DEF PoolOK, FreeListOK
  <1> HIDE DEF f
  <1>2. s.buffer[f] = EmptyFrame
    BY <1>1 DEF PoolOK, FreeListOK, FramesOK
  <1>3. filled = [s.buffer[f] EXCEPT !.page_id = page, !.pin_count = @ + 1, !.data = data]
    <2>1. s.buffer[f] \in FrameType
      BY <1>2, EmptyFrameOK
    <2>2. s.buffer[f].is_dirty = FALSE /\ s.buffer[f].pin_count + 1 = 1
      BY <1>2 DEF EmptyFrame
    <2>3. filled = [page_id |-> page, is_dirty |-> s.buffer[f].is_dirty,
                    pin_count |-> s.buffer[f].pin_count + 1, data |-> data]
      BY <2>2
    <2> QED
      BY <2>1, <2>3, FrameFilled, Zenon
  <1>4. filled \in FrameType
    BY DEF FrameType
  <1> HIDE DEF filled
  <1>5. /\ r.buffer = [s.buffer EXCEPT ![f] = filled]
        /\ r.page_table = WithEntry(s, page, f)
        /\ r.free_list = Seqs!Front(s.free_list)
        /\ r.lru = RecordAccess(s.lru, page)
        /\ r.disk = s.disk
        /\ PoolShape(r)
    BY <1>1, <1>3, <1>4 DEF PutInFrame, f, PoolOK, PoolShape
  <1> HIDE DEF r
  <1>6. /\ r.buffer[f] = filled /\ filled.page_id = page /\ filled.pin_count = 1
        /\ \A h \in Frames : h # f => r.buffer[h] = s.buffer[h]
    BY <1>1, <1>5 DEF filled, PoolOK, PoolShape
  <1>7. /\ LruOK(r.lru)
        /\ r.lru.hint = s.lru.hint
        /\ DOMAIN r.lru.history = DOMAIN s.lru.history \cup {page}
        /\ \A p \in DOMAIN s.lru.history \ {page} : r.lru.history[p] = s.lru.history[p]
    BY <1>5, RecordAccessOK DEF PoolOK, OffersOK
  <1>8. page # INVALID_PAGE_ID
    BY PageIdsAreNat
  <1>9. FramesOK(r)
    <2>1. /\ DOMAIN r.page_table = DOMAIN s.page_table \cup {page}
          /\ r.page_table[page] = f
          /\ \A p \in DOMAIN s.page_table : r.page_table[p] = s.page_table[p]
          /\ IsMap(r.page_table, PageIds, Frames)
      BY <1>1, <1>5 DEF WithEntry, PoolOK, FramesOK, IsMap
    <2>2. ASSUME NEW p \in DOMAIN r.page_table
          PROVE  r.buffer[r.page_table[p]].page_id = p
      <3>1. CASE p = page
        BY <1>6, <2>1, <3>1
      <3>2. CASE p # page
        <4>1. /\ p \in DOMAIN s.page_table /\ r.page_table[p] = s.page_table[p]
              /\ s.page_table[p] \in Frames /\ s.buffer[s.page_table[p]].page_id = p
              /\ p # INVALID_PAGE_ID
          BY <2>1, <3>2, PageIdsAreNat DEF PoolOK, FramesOK, IsMap
        <4> QED
          BY <1>2, <1>6, <4>1 DEF EmptyFrame
      <3> QED
        BY <3>1, <3>2
    <2>3. ASSUME NEW h \in Frames, r.buffer[h].page_id # INVALID_PAGE_ID
          PROVE  /\ r.buffer[h].page_id \in DOMAIN r.page_table
                 /\ r.page_table[r.buffer[h].page_id] = h
      BY <1>6, <2>1, <2>3 DEF PoolOK, FramesOK
    <2>4. ASSUME NEW h \in Frames, r.buffer[h].page_id = INVALID_PAGE_ID
          PROVE  r.buffer[h] = EmptyFrame
      BY <1>6, <1>8, <2>4 DEF PoolOK, FramesOK
    <2> QED
      BY <2>1, <2>2, <2>3, <2>4 DEF FramesOK
  <1>10. FreeListOK(r)
    <2> DEFINE n == Len(s.free_list)
    <2>1. /\ r.free_list \in Seq(Frames) /\ Len(r.free_list) = n - 1 /\ n \in Nat
          /\ \A i \in 1 .. n - 1 : r.free_list[i] = s.free_list[i] /\ i \in 1 .. n
      BY <1>1, <1>5
    <2>2. \A i, j \in 1 .. n : s.free_list[i] = s.free_list[j] => i = j
      BY DEF PoolOK, FreeListOK
    <2>3. \A i \in 1 .. n - 1 : s.free_list[i] # f /\ s.free_list[i] \in Frames
      BY <1>1, <2>2 DEF PoolOK, FreeListOK
    <2>4. ASSUME NEW i \in 1 .. n - 1
          PROVE  r.buffer[r.free_list[i]].page_id = INVALID_PAGE_ID
      <3>1. s.buffer[s.free_list[i]].page_id = INVALID_PAGE_ID
        BY <2>1 DEF PoolOK, FreeListOK
      <3> QED
        BY <1>6, <2>1, <2>3, <3>1
    <2>5. ASSUME NEW h \in Frames, r.buffer[h].page_id = INVALID_PAGE_ID
          PROVE  \E i \in 1 .. n - 1 : r.free_list[i] = h
      <3>1. h # f /\ s.buffer[h].page_id = INVALID_PAGE_ID
        BY <1>6, <1>8, <2>5
      <3>2. PICK i \in 1 .. n : s.free_list[i] = h
        BY <3>1 DEF PoolOK, FreeListOK
      <3>3. i # n /\ i \in 1 .. n - 1
        BY <1>1, <2>1, <3>1, <3>2
      <3> QED
        BY <2>1, <3>2, <3>3
    <2> QED
      BY <2>1, <2>2, <2>4, <2>5 DEF FreeListOK
  <1>11. OffersOK(r)
    <2>1. DOMAIN r.page_table \subseteq DOMAIN r.lru.history
      BY <1>5, <1>7 DEF WithEntry, PoolOK, OffersOK
    <2>2. ASSUME NEW h \in Frames
          PROVE  r.lru.hint[h] =
                   IF Offered(r, h) THEN GetKDistance(r.lru, r.buffer[h].page_id)
                   ELSE NoHint
      <3>1. CASE h = f
        BY <1>2, <1>6, <1>7, <3>1 DEF PoolOK, OffersOK, Offered, EmptyFrame
      <3>2. CASE h # f /\ ~Offered(s, h)
        BY <1>6, <1>7, <3>2 DEF PoolOK, OffersOK, Offered
      <3>3. CASE h # f /\ Offered(s, h)
        <4> DEFINE p == s.buffer[h].page_id
        <4>1. p \in DOMAIN s.page_table /\ p # page /\ p \in DOMAIN s.lru.history
          BY <3>3 DEF PoolOK, FramesOK, OffersOK, Offered
        <4>2. GetKDistance(r.lru, p) = GetKDistance(s.lru, p)
          BY <1>7, <4>1, DistanceKept
        <4> QED
          BY <1>6, <1>7, <3>3, <4>2 DEF PoolOK, OffersOK, Offered
      <3> QED
        BY <3>1, <3>2, <3>3
    <2> QED
      BY <1>7, <2>1, <2>2 DEF OffersOK
  <1> QED
    BY <1>1, <1>2, <1>5, <1>9, <1>10, <1>11 DEF PoolOK, r, f, filled

(* A used frame that keeps its page.                                       *)
LEMMA SamePage ==
  ASSUME NEW s, PoolOK(s), NEW r, NEW f \in Frames, NEW b \in FrameType,
         s.buffer[f].page_id # INVALID_PAGE_ID, b.page_id = s.buffer[f].page_id,
         r.buffer = [s.buffer EXCEPT ![f] = b],
         r.page_table = s.page_table, r.free_list = s.free_list
  PROVE  FramesOK(r) /\ FreeListOK(r)
  <1>1. /\ r.buffer[f] = b
        /\ \A h \in Frames : h # f => r.buffer[h] = s.buffer[h]
        /\ \A h \in Frames : r.buffer[h].page_id = s.buffer[h].page_id
    BY DEF PoolOK, PoolShape
  <1>2. FramesOK(r)
    <2>1. \A p \in DOMAIN r.page_table : r.buffer[r.page_table[p]].page_id = p
      BY <1>1 DEF PoolOK, FramesOK, IsMap
    <2>2. \A h \in Frames : r.buffer[h].page_id # INVALID_PAGE_ID =>
            /\ r.buffer[h].page_id \in DOMAIN r.page_table
            /\ r.page_table[r.buffer[h].page_id] = h
      BY <1>1 DEF PoolOK, FramesOK
    <2>3. \A h \in Frames : r.buffer[h].page_id = INVALID_PAGE_ID =>
            r.buffer[h] = EmptyFrame
      BY <1>1 DEF PoolOK, FramesOK
    <2> QED
      BY <2>1, <2>2, <2>3 DEF PoolOK, FramesOK
  <1>3. FreeListOK(r)
    <2>1. \A i \in 1 .. Len(s.free_list) : s.free_list[i] \in Frames
      BY DEF PoolOK, FreeListOK
    <2> QED
      BY <1>1, <2>1 DEF PoolOK, FreeListOK
  <1> QED
    BY <1>2, <1>3

(* Writing to a pinned frame, or pinning it once more.                     *)
WithFrame(s, f, b) == [s EXCEPT !.buffer[f] = b]

LEMMA PinnedFrameOK ==
  ASSUME NEW s, PoolOK(s), NEW f \in Frames, NEW b \in FrameType,
         s.buffer[f].page_id # INVALID_PAGE_ID, b.page_id = s.buffer[f].page_id,
         s.buffer[f].pin_count # 0, b.pin_count # 0
  PROVE  LET r == WithFrame(s, f, b)
         IN /\ PoolOK(r)
            /\ r.buffer = [s.buffer EXCEPT ![f] = b]
            /\ r.page_table = s.page_table /\ r.disk = s.disk
            /\ r.free_list = s.free_list
  <1> DEFINE r == WithFrame(s, f, b)
  <1>1. /\ r.buffer = [s.buffer EXCEPT ![f] = b]
        /\ r.page_table = s.page_table /\ r.disk = s.disk
        /\ r.free_list = s.free_list /\ r.lru = s.lru
        /\ PoolShape(r)
    BY DEF WithFrame, PoolOK, PoolShape
  <1> HIDE DEF r
  <1>2. FramesOK(r) /\ FreeListOK(r)
    BY <1>1, SamePage
  <1>3. OffersOK(r)
    <2>1. \A h \in Frames : /\ Offered(r, h) = Offered(s, h)
                            /\ r.buffer[h].page_id = s.buffer[h].page_id
      BY <1>1 DEF Offered, PoolOK, PoolShape
    <2> QED
      BY <1>1, <2>1 DEF PoolOK, OffersOK
  <1> QED
    BY <1>1, <1>2, <1>3 DEF PoolOK, r

LEMMA FetchCachedOK ==
  ASSUME NEW s, PoolOK(s), NEW page \in DOMAIN s.page_table
  PROVE  LET r == FetchCached(s, page)
             f == s.page_table[page]
         IN /\ PoolOK(r)
            /\ f \in Frames /\ s.buffer[f].page_id = page
            /\ r.buffer = [s.buffer EXCEPT
                             ![f] = [s.buffer[f] EXCEPT !.pin_count = @ + 1]]
            /\ r.page_table = s.page_table /\ r.disk = s.disk
  <1> DEFINE f == s.page_table[page]
             b == [s.buffer[f] EXCEPT !.pin_count = @ + 1]
             accessed == RecordAccess(s.lru, page)
             r == FetchCached(s, page)
  <1>1. f \in Frames /\ page \in PageIds /\ s.buffer[f].page_id = page
        /\ page # INVALID_PAGE_ID /\ page \in DOMAIN s.lru.history
    BY PageIdsAreNat DEF PoolOK, FramesOK, OffersOK, IsMap
  <1> HIDE DEF f
  <1>2. s.buffer[f] \in FrameType
    BY <1>1, BufferFrame
  <1>3. /\ b \in FrameType /\ b.page_id = page
        /\ b.pin_count = s.buffer[f].pin_count + 1 /\ b.pin_count # 0
    BY <1>1, <1>2 DEF FrameType
  <1>4. b = [s.buffer[f] EXCEPT !.pin_count = @ + 1]
    OBVIOUS
  <1> HIDE DEF b
  <1>5. /\ r.buffer = [s.buffer EXCEPT ![f] = b]
        /\ r.page_table = s.page_table /\ r.disk = s.disk
        /\ r.free_list = s.free_list
        /\ r.lru = IF s.buffer[f].pin_count = 0
                   THEN SetNonevictable(accessed, f) ELSE accessed
        /\ PoolShape(r)
    BY <1>1, <1>3, <1>4 DEF FetchCached, f, PoolOK, PoolShape
  <1> HIDE DEF r
  <1>6. FramesOK(r) /\ FreeListOK(r)
    BY <1>1, <1>3, <1>5, SamePage
  <1>7. /\ LruOK(accessed) /\ accessed.hint = s.lru.hint
        /\ DOMAIN accessed.history = DOMAIN s.lru.history
        /\ \A p \in DOMAIN s.lru.history \ {page} :
             accessed.history[p] = s.lru.history[p]
    <2>1. LruOK(s.lru)
      BY DEF PoolOK, OffersOK
    <2>2. /\ LruOK(accessed) /\ accessed.hint = s.lru.hint
          /\ DOMAIN accessed.history = DOMAIN s.lru.history \cup {page}
          /\ \A p \in DOMAIN s.lru.history \ {page} :
               accessed.history[p] = s.lru.history[p]
      BY <1>1, <2>1, RecordAccessOK
    <2> HIDE DEF accessed
    <2> QED
      BY <1>1, <2>2
  <1> HIDE DEF accessed
  <1>8. /\ LruOK(r.lru) /\ r.lru.history = accessed.history
        /\ r.lru.hint[f] = NoHint
        /\ \A h \in Frames : h # f => r.lru.hint[h] = s.lru.hint[h]
    <2>1. s.lru.hint \in [Frames -> (Nat \X Nat) \cup {NoHint}]
      BY DEF PoolOK, OffersOK, LruOK, HintsOK
    <2>2. CASE s.buffer[f].pin_count = 0
      <3>1. /\ LruOK(r.lru) /\ r.lru.history = accessed.history
            /\ r.lru.hint = [accessed.hint EXCEPT ![f] = NoHint]
        <4>1. r.lru = SetNonevictable(accessed, f)
          BY <1>5, <2>2
        <4> QED
          BY <1>1, <1>7, <4>1, SetNonevictableOK
      <3> QED
        BY <1>1, <1>7, <2>1, <3>1
    <2>3. CASE s.buffer[f].pin_count # 0
      BY <1>1, <1>5, <1>7, <2>3 DEF PoolOK, OffersOK, Offered
    <2> QED
      BY <2>2, <2>3
  <1>9. OffersOK(r)
    <2>1. DOMAIN r.page_table \subseteq DOMAIN r.lru.history
      BY <1>5, <1>7, <1>8 DEF PoolOK, OffersOK
    <2>2. /\ r.buffer[f] = b
          /\ \A h \in Frames : h # f => r.buffer[h] = s.buffer[h]
      BY <1>1, <1>5 DEF PoolOK, PoolShape
    <2>3. ASSUME NEW h \in Frames
          PROVE  r.lru.hint[h] =
                   IF Offered(r, h) THEN GetKDistance(r.lru, r.buffer[h].page_id)
                   ELSE NoHint
      <3>1. CASE h = f
        BY <1>3, <1>8, <2>2, <3>1 DEF Offered
      <3>2. CASE h # f /\ ~Offered(s, h)
        BY <1>8, <2>2, <3>2 DEF PoolOK, OffersOK, Offered
      <3>3. CASE h # f /\ Offered(s, h)
        <4> DEFINE p == s.buffer[h].page_id
        <4>1. p \in DOMAIN s.lru.history /\ p # page
          BY <1>1, <3>3, UsedFrame DEF Offered
        <4>2. GetKDistance(r.lru, p) = GetKDistance(s.lru, p)
          BY <1>7, <1>8, <4>1, DistanceKept
        <4> QED
          BY <1>8, <2>2, <3>3, <4>2 DEF PoolOK, OffersOK, Offered
      <3> QED
        BY <3>1, <3>2, <3>3
    <2> QED
      BY <1>8, <2>1, <2>3 DEF OffersOK
  <1> QED
    BY <1>1, <1>5, <1>6, <1>9 DEF PoolOK, r, f, b

(* The page's distance is not taken: the one who had it would have been    *)
(* accessed at the same time.                                              *)
LEMMA UnpinFrameOK ==
  ASSUME NEW s, PoolOK(s), NEW page \in DOMAIN s.page_table, NEW is_dirty \in BOOLEAN,
         s.buffer[s.page_table[page]].pin_count # 0
  PROVE  LET r == UnpinFrame(s, page, is_dirty)
             f == s.page_table[page]
         IN /\ PoolOK(r)
            /\ f \in Frames /\ s.buffer[f].page_id = page
            /\ \A h \in Frames : h # f => r.buffer[h] = s.buffer[h]
            /\ r.buffer[f].page_id = page /\ r.buffer[f].data = s.buffer[f].data
            /\ r.buffer[f].pin_count = s.buffer[f].pin_count - 1
            /\ r.buffer[f].is_dirty = (s.buffer[f].is_dirty \/ is_dirty)
            /\ r.page_table = s.page_table /\ r.disk = s.disk
  <1> DEFINE f == s.page_table[page]
             b == [s.buffer[f] EXCEPT !.pin_count = @ - 1, !.is_dirty = @ \/ is_dirty]
             r == UnpinFrame(s, page, is_dirty)
  <1>1. f \in Frames /\ page \in PageIds /\ s.buffer[f].page_id = page
        /\ page # INVALID_PAGE_ID /\ page \in DOMAIN s.lru.history
    BY PageIdsAreNat DEF PoolOK, FramesOK, OffersOK, IsMap
  <1>0. s.buffer[f].pin_count # 0
    OBVIOUS
  <1> HIDE DEF f
  <1>2. /\ s.buffer[f] \in FrameType /\ s.buffer[f].pin_count \in Nat
        /\ s.buffer[f].is_dirty \in BOOLEAN
    BY <1>1, BufferFrame DEF FrameType
  <1>3. /\ b \in FrameType /\ b.page_id = page
        /\ b.pin_count = s.buffer[f].pin_count - 1 /\ b.data = s.buffer[f].data
        /\ b.is_dirty = (s.buffer[f].is_dirty \/ is_dirty)
    <2>1. s.buffer[f].pin_count - 1 \in Nat
      BY <1>0, <1>2
    <2> QED
      BY <1>1, <1>2, <2>1 DEF FrameType
  <1>4. b = [s.buffer[f] EXCEPT !.pin_count = @ - 1, !.is_dirty = @ \/ is_dirty]
    OBVIOUS
  <1>5. /\ r.buffer = [s.buffer EXCEPT ![f] = b]
        /\ r.page_table = s.page_table /\ r.disk = s.disk
        /\ r.free_list = s.free_list
        /\ r.lru = IF s.buffer[f].pin_count = 1 THEN SetEvictable(s.lru, f, page)
                   ELSE s.lru
        /\ PoolShape(r)
    <2>1. r = [s EXCEPT !.buffer[f] = b,
                        !.lru = IF s.buffer[f].pin_count = 1
                                THEN SetEvictable(@, f, page) ELSE @]
      <3>1. Cached(s, page) /\ ~(s.buffer[f].pin_count <= 0)
        BY <1>0, <1>2 DEF Cached
      <3> QED
        BY <3>1, Zenon DEF UnpinFrame, f, b
    <2> HIDE DEF b, r
    <2> QED
      BY <1>1, <1>3, <2>1 DEF PoolOK, PoolShape
  <1> HIDE DEF b, r
  <1>6. FramesOK(r) /\ FreeListOK(r)
    BY <1>1, <1>3, <1>5, SamePage
  <1>7. s.lru.hint[f] = NoHint
    BY <1>0, <1>1 DEF PoolOK, OffersOK, Offered
  <1>8. GetKDistance(s.lru, page) \notin DOMAIN s.lru.evictable
    <2> SUFFICES ASSUME GetKDistance(s.lru, page) \in DOMAIN s.lru.evictable
                 PROVE  FALSE
      OBVIOUS
    <2> DEFINE h == s.lru.evictable[GetKDistance(s.lru, page)]
               p == s.buffer[h].page_id
    <2>1. h \in Frames /\ s.lru.hint[h] = GetKDistance(s.lru, page)
      BY DEF PoolOK, OffersOK, LruOK, HintsOK, IsMap
    <2>2. s.lru.hint[h] # NoHint
      BY <1>1, <2>1, DistanceOfPage, HintIsNoPair DEF PoolOK, OffersOK
    <2>3. Offered(s, h) /\ s.lru.hint[h] = GetKDistance(s.lru, p)
      BY <2>1, <2>2 DEF PoolOK, OffersOK
    <2>4. p = page
      <3> HIDE DEF h
      <3>1. p \in DOMAIN s.lru.history
        BY <2>1, <2>3, UsedFrame DEF Offered
      <3>2. LruOK(s.lru) /\ GetKDistance(s.lru, p) = GetKDistance(s.lru, page)
        BY <2>1, <2>3 DEF PoolOK, OffersOK
      <3> HIDE DEF p
      <3> QED
        BY <1>1, <3>1, <3>2, DistancesDiffer
    <2> QED
      BY <1>1, <1>7, <2>1, <2>2, <2>4, UsedFrame
  <1>9. /\ LruOK(r.lru) /\ r.lru.history = s.lru.history
        /\ r.lru.hint[f] = IF s.buffer[f].pin_count = 1
                           THEN GetKDistance(s.lru, page) ELSE NoHint
        /\ \A h \in Frames : h # f => r.lru.hint[h] = s.lru.hint[h]
    <2>1. LruOK(s.lru) /\ s.lru.hint \in [Frames -> (Nat \X Nat) \cup {NoHint}]
      BY DEF PoolOK, OffersOK, LruOK, HintsOK
    <2>2. CASE s.buffer[f].pin_count = 1
      <3>0. r.lru = SetEvictable(s.lru, f, page)
        BY <1>5, <2>2
      <3>1. /\ LruOK(r.lru) /\ r.lru.history = s.lru.history
            /\ r.lru.hint = [s.lru.hint EXCEPT ![f] = GetKDistance(s.lru, page)]
        BY <1>1, <1>7, <1>8, <2>1, <3>0, SetEvictableOK
      <3> QED
        BY <1>1, <2>1, <2>2, <3>1
    <2>3. CASE s.buffer[f].pin_count # 1
      BY <1>5, <1>7, <2>1, <2>3
    <2> QED
      BY <2>2, <2>3
  <1>10. /\ r.buffer[f] = b
         /\ \A h \in Frames : h # f => r.buffer[h] = s.buffer[h]
    BY <1>1, <1>5 DEF PoolOK, PoolShape
  <1>11. OffersOK(r)
    <2>1. DOMAIN r.page_table \subseteq DOMAIN r.lru.history
      BY <1>5, <1>9 DEF PoolOK, OffersOK
    <2>2. \A p : GetKDistance(r.lru, p) = GetKDistance(s.lru, p)
      BY <1>9 DEF GetKDistance, History
    <2>3. ASSUME NEW h \in Frames
          PROVE  r.lru.hint[h] =
                   IF Offered(r, h) THEN GetKDistance(r.lru, r.buffer[h].page_id)
                   ELSE NoHint
      <3>1. CASE h = f
        <4>1. Offered(r, h) <=> s.buffer[f].pin_count = 1
          BY <1>1, <1>2, <1>3, <1>10, <3>1 DEF Offered
        <4> QED
          BY <1>3, <1>9, <1>10, <2>2, <3>1, <4>1
      <3>2. CASE h # f
        BY <1>9, <1>10, <2>2, <3>2 DEF PoolOK, OffersOK, Offered
      <3> QED
        BY <3>1, <3>2
    <2> QED
      BY <1>9, <2>1, <2>3 DEF OffersOK
  <1> QED
    BY <1>1, <1>3, <1>5, <1>6, <1>10, <1>11 DEF PoolOK, r, f

LEMMA DeletePageOK ==
  ASSUME NEW s, PoolOK(s), NEW page \in DOMAIN s.page_table
  PROVE  LET r == DeletePage(s, page)
             f == s.page_table[page]
         IN /\ PoolOK(r)
            /\ f \in Frames /\ s.buffer[f].page_id = page /\ page \in PageIds
            /\ r.buffer = [s.buffer EXCEPT ![f] = EmptyFrame]
            /\ r.page_table = Uncached(s, page)
            /\ r.disk = DeallocateFrame(s.disk, page)
  <1> DEFINE f == s.page_table[page]
             n == Len(s.free_list)
             r == DeletePage(s, page)
  <1>1. f \in Frames /\ page \in PageIds /\ s.buffer[f].page_id = page
        /\ page # INVALID_PAGE_ID
    BY PageIdsAreNat DEF PoolOK, FramesOK, IsMap
  <1>2. s.disk \in DiskType /\ DeallocateFrame(s.disk, page) \in DiskType
    BY <1>1, DeallocateFrameOK DEF PoolOK, PoolShape
  <1>3. /\ r.buffer = [s.buffer EXCEPT ![f] = EmptyFrame]
        /\ r.page_table = Uncached(s, page)
        /\ r.free_list = Append(s.free_list, f)
        /\ r.lru = Forget(s.lru, f, page)
        /\ r.disk = DeallocateFrame(s.disk, page)
        /\ PoolShape(r)
    <2> DEFINE freed == [s EXCEPT !.buffer[f] = EmptyFrame,
                                  !.lru = Forget(@, f, page),
                                  !.free_list = Append(@, f),
                                  !.page_table = Uncached(s, page)]
    <2>1. r = [freed EXCEPT !.disk = DeallocateFrame(@, page)]
      BY Zenon DEF DeletePage, Cached
    <2> HIDE DEF f, r
    <2>2. /\ freed.buffer = [s.buffer EXCEPT ![f] = EmptyFrame]
          /\ freed.page_table = Uncached(s, page)
          /\ freed.free_list = Append(s.free_list, f)
          /\ freed.lru = Forget(s.lru, f, page)
          /\ freed.disk = s.disk
          /\ PoolShape(freed)
      BY <1>1, EmptyFrameOK DEF PoolOK, PoolShape
    <2> HIDE DEF freed
    <2> QED
      BY <1>2, <2>1, <2>2 DEF PoolShape
  <1> HIDE DEF f, r
  <1>4. /\ LruOK(r.lru)
        /\ DOMAIN r.lru.history = DOMAIN s.lru.history \ {page}
        /\ \A p \in DOMAIN r.lru.history : r.lru.history[p] = s.lru.history[p]
        /\ r.lru.hint = [s.lru.hint EXCEPT ![f] = NoHint]
    <2>1. LruOK(s.lru)
      BY DEF PoolOK, OffersOK
    <2> DEFINE m == Forget(s.lru, f, page)
    <2>2. /\ LruOK(m)
          /\ DOMAIN m.history = DOMAIN s.lru.history \ {page}
          /\ \A p \in DOMAIN m.history : m.history[p] = s.lru.history[p]
          /\ m.hint = [s.lru.hint EXCEPT ![f] = NoHint]
      BY <1>1, <2>1, ForgetOK
    <2>3. r.lru = m
      BY <1>3
    <2> HIDE DEF m
    <2> QED
      BY <2>2, <2>3
  <1>5. /\ r.buffer[f] = EmptyFrame
        /\ \A h \in Frames : h # f => r.buffer[h] = s.buffer[h]
    BY <1>1, <1>3 DEF PoolOK, PoolShape
  <1>6. /\ DOMAIN r.page_table = DOMAIN s.page_table \ {page}
        /\ \A p \in DOMAIN r.page_table : r.page_table[p] = s.page_table[p]
        /\ IsMap(r.page_table, PageIds, Frames)
    BY <1>3 DEF Uncached, PoolOK, FramesOK, IsMap
  <1>7. FramesOK(r)
    <2>1. ASSUME NEW p \in DOMAIN r.page_table
          PROVE  r.buffer[r.page_table[p]].page_id = p
      BY <1>1, <1>5, <1>6 DEF PoolOK, FramesOK, IsMap
    <2>2. ASSUME NEW h \in Frames, r.buffer[h].page_id # INVALID_PAGE_ID
          PROVE  /\ r.buffer[h].page_id \in DOMAIN r.page_table
                 /\ r.page_table[r.buffer[h].page_id] = h
      <3>1. h # f /\ r.buffer[h] = s.buffer[h]
        BY <1>5, <2>2 DEF EmptyFrame
      <3>2. s.buffer[h].page_id \in DOMAIN s.page_table
            /\ s.page_table[s.buffer[h].page_id] = h
        BY <2>2, <3>1 DEF PoolOK, FramesOK
      <3> QED
        BY <1>6, <3>1, <3>2 DEF f
    <2>3. ASSUME NEW h \in Frames, r.buffer[h].page_id = INVALID_PAGE_ID
          PROVE  r.buffer[h] = EmptyFrame
      BY <1>5, <2>3 DEF PoolOK, FramesOK
    <2> QED
      BY <1>6, <2>1, <2>2, <2>3 DEF FramesOK
  <1>8. FreeListOK(r)
    <2>1. s.free_list \in Seq(Frames) /\ n \in Nat
      BY DEF PoolOK, FreeListOK
    <2>2. /\ r.free_list \in Seq(Frames) /\ Len(r.free_list) = n + 1
          /\ r.free_list[n + 1] = f
          /\ \A i \in 1 .. n : r.free_list[i] = s.free_list[i]
          /\ \A i \in 1 .. n + 1 : i \in 1 .. n \/ i = n + 1
          /\ \A i \in 1 .. n : i \in 1 .. n + 1
      BY <1>1, <1>3, <2>1
    <2>3. \A i \in 1 .. n : /\ s.free_list[i] # f /\ s.free_list[i] \in Frames
                            /\ s.buffer[s.free_list[i]].page_id = INVALID_PAGE_ID
      BY <1>1, <2>1 DEF PoolOK, FreeListOK
    <2>4. ASSUME NEW i \in 1 .. n + 1
          PROVE  r.buffer[r.free_list[i]].page_id = INVALID_PAGE_ID
      BY <1>5, <2>2, <2>3 DEF EmptyFrame
    <2>5. ASSUME NEW i \in 1 .. n + 1, NEW j \in 1 .. n + 1,
                 r.free_list[i] = r.free_list[j]
          PROVE  i = j
      <3>1. \A k, m \in 1 .. n : s.free_list[k] = s.free_list[m] => k = m
        BY DEF PoolOK, FreeListOK
      <3> QED
        BY <2>2, <2>3, <2>5, <3>1
    <2>6. ASSUME NEW h \in Frames, r.buffer[h].page_id = INVALID_PAGE_ID
          PROVE  \E i \in 1 .. n + 1 : r.free_list[i] = h
      <3>1. CASE h = f
        <4>1. n + 1 \in 1 .. n + 1
          BY <2>1
        <4> QED
          BY <2>2, <3>1, <4>1
      <3>2. CASE h # f
        <4>1. PICK i \in 1 .. n : s.free_list[i] = h
          BY <1>5, <2>6, <3>2 DEF PoolOK, FreeListOK
        <4> QED
          BY <2>2, <4>1
      <3> QED
        BY <3>1, <3>2
    <2> QED
      BY <2>2, <2>4, <2>5, <2>6 DEF FreeListOK
  <1>9. OffersOK(r)
    <2>1. DOMAIN r.page_table \subseteq DOMAIN r.lru.history
      BY <1>4, <1>6 DEF PoolOK, OffersOK
    <2>2. ASSUME NEW h \in Frames
          PROVE  r.lru.hint[h] =
                   IF Offered(r, h) THEN GetKDistance(r.lru, r.buffer[h].page_id)
                   ELSE NoHint
      <3>0. s.lru.hint \in [Frames -> (Nat \X Nat) \cup {NoHint}]
        BY DEF PoolOK, OffersOK, LruOK, HintsOK
      <3>1. CASE h = f
        BY <1>1, <1>4, <1>5, <3>0, <3>1 DEF Offered, EmptyFrame
      <3>2. CASE h # f /\ ~Offered(s, h)
        BY <1>4, <1>5, <3>0, <3>2 DEF PoolOK, OffersOK, Offered
      <3>3. CASE h # f /\ Offered(s, h)
        <4> DEFINE p == s.buffer[h].page_id
        <4>1. p \in DOMAIN s.lru.history /\ p # page
          BY <1>1, <3>3, UsedFrame DEF Offered
        <4>2. GetKDistance(r.lru, p) = GetKDistance(s.lru, p)
          BY <1>4, <4>1, DistanceKept
        <4> QED
          BY <1>4, <1>5, <3>0, <3>3, <4>2 DEF PoolOK, OffersOK, Offered
      <3> QED
        BY <3>1, <3>2, <3>3
    <2> QED
      BY <1>4, <2>1, <2>2 DEF OffersOK
  <1> QED
    BY <1>1, <1>3, <1>7, <1>8, <1>9 DEF PoolOK, r, f

LEMMA SetDiskOK ==
  ASSUME NEW s, PoolOK(s), NEW disk \in DiskType
  PROVE  LET r == [s EXCEPT !.disk = disk]
         IN /\ PoolOK(r) /\ r.disk = disk
            /\ r.buffer = s.buffer /\ r.page_table = s.page_table
            /\ r.free_list = s.free_list
  <1> DEFINE r == [s EXCEPT !.disk = disk]
  <1>1. /\ PoolShape(r) /\ r.disk = disk /\ r.buffer = s.buffer
        /\ r.page_table = s.page_table /\ r.free_list = s.free_list /\ r.lru = s.lru
    BY DEF PoolOK, PoolShape
  <1> HIDE DEF r
  <1>2. FramesOK(r)
    BY <1>1 DEF PoolOK, FramesOK
  <1>3. FreeListOK(r)
    BY <1>1 DEF PoolOK, FreeListOK
  <1>4. OffersOK(r)
    BY <1>1 DEF PoolOK, OffersOK, Offered
  <1> QED
    BY <1>1, <1>2, <1>3, <1>4 DEF PoolOK, r

(* All frames, each once.                                                  *)
LEMMA FramesListed ==
  LET list == Seqs!SetToSeq(Frames)
  IN /\ list \in Seq(Frames)
     /\ \A i, j \in 1 .. Len(list) : list[i] = list[j] => i = j
     /\ \A f \in Frames : \E i \in 1 .. Len(list) : list[i] = f
  <1> DEFINE n == Cardinality(Frames)
             list == Seqs!SetToSeq(Frames)
  <1>1. IsFiniteSet(Frames)
    BY PoolAssumption
  <1>2. n \in Nat /\ ExistsBijection(1 .. n, Frames)
    BY <1>1, FS_CardinalityType
  <1>3. Seqs!Cardinality(Frames) = n
    BY DEF Seqs!Cardinality, Cardinality
  <1>4. list = CHOOSE f \in [1 .. n -> Frames] : Seqs!IsInjective(f)
    BY <1>3 DEF Seqs!SetToSeq
  <1> HIDE DEF list, n
  <1>5. PICK g \in [1 .. n -> Frames] : \A i, j \in 1 .. n : g[i] = g[j] => i = j
    BY <1>2 DEF ExistsBijection, Bijection, Injection, IsInjective
  <1>6. Seqs!IsInjective(g)
    BY <1>5 DEF Seqs!IsInjective
  <1>7. list \in [1 .. n -> Frames] /\ Seqs!IsInjective(list)
    BY <1>4, <1>6
  <1>8. list \in Injection(1 .. n, Frames)
    BY <1>7 DEF Seqs!IsInjective, Injection, IsInjective
  <1>9. Cardinality(1 .. n) = n
    BY <1>2, FS_Interval
  <1>10. list \in Surjection(1 .. n, Frames)
    BY <1>1, <1>8, <1>9, FS_Injection DEF n
  <1>11. list \in Seq(Frames) /\ Len(list) = n
    BY <1>2, <1>7
  <1> QED
    BY <1>7, <1>10, <1>11 DEF Seqs!IsInjective, Surjection, list

LEMMA EmptyPoolOK ==
  ASSUME NEW disk \in DiskType
  PROVE  LET s == EmptyPool(disk)
         IN /\ PoolOK(s) /\ s.disk = disk
            /\ DOMAIN s.page_table = {}
            /\ \A f \in Frames : s.buffer[f] = EmptyFrame
  <1> DEFINE s == EmptyPool(disk)
             list == Seqs!SetToSeq(Frames)
  <1>1. /\ list \in Seq(Frames)
        /\ \A i, j \in 1 .. Len(list) : list[i] = list[j] => i = j
        /\ \A f \in Frames : \E i \in 1 .. Len(list) : list[i] = f
    BY FramesListed
  <1> HIDE DEF list
  <1>2. /\ PoolShape(s) /\ s.disk = disk /\ s.page_table = [p \in {} |-> 0]
        /\ s.buffer = [f \in Frames |-> EmptyFrame]
        /\ s.free_list = list /\ s.lru = EmptyReplacer
    BY EmptyFrameOK DEF EmptyPool, PoolShape, list
  <1> HIDE DEF s
  <1>3. \A f \in Frames : s.buffer[f] = EmptyFrame
    BY <1>2
  <1>4. FramesOK(s)
    BY <1>2 DEF FramesOK, IsMap, EmptyFrame
  <1>5. FreeListOK(s)
    BY <1>1, <1>2 DEF FreeListOK, EmptyFrame
  <1>6. OffersOK(s)
    BY <1>2, EmptyReplacerOK DEF OffersOK, Offered, EmptyFrame, EmptyReplacer
  <1> QED
    BY <1>2, <1>3, <1>4, <1>5, <1>6 DEF PoolOK, s

LEMMA MaxBelow ==
  ASSUME NEW N \in Nat, NEW S \in SUBSET (0 .. N), S # {}
  PROVE  Sets!Max(S) \in S /\ \A x \in S : x <= Sets!Max(S)
  <1> DEFINE T == {N - x : x \in S}
  <1>1. T \in SUBSET Nat /\ T # {}
    OBVIOUS
  <1>2. PICK t \in T : \A y \in T : t <= y
    BY <1>1, NatMin
  <1>3. PICK m \in S : t = N - m
    OBVIOUS
  <1>4. \A x \in S : m >= x
    <2> SUFFICES ASSUME NEW x \in S PROVE m >= x
      OBVIOUS
    <2>1. N - m <= N - x
      BY <1>2, <1>3
    <2> QED
      BY <2>1
  <1>5. Sets!Max(S) \in S /\ \A x \in S : Sets!Max(S) >= x
    BY <1>4 DEF Sets!Max
  <1> QED
    BY <1>5

(* The destructor leaves every dirty frame's page in the file.             *)
LEMMA FlushAllFramesOK ==
  ASSUME NEW s, PoolOK(s)
  PROVE  LET m == FlushAllFrames(s)
         IN /\ m \in DiskType
            /\ m.free_head = s.disk.free_head /\ m.failed = s.disk.failed
            /\ ~m.failed =>
                 /\ m.info = m.free_head
                 /\ m.length >= s.disk.length
                 /\ \A p \in PageIds :
                      LET f == s.page_table[p] IN
                      IF Cached(s, p) /\ s.buffer[f].is_dirty
                      THEN m.pages[p] = s.buffer[f].data /\ 2 * p + 2 <= m.length
                      ELSE m.pages[p] = s.disk.pages[p]
  <1> DEFINE dirty == {f \in Frames : s.buffer[f].is_dirty}
             written == {s.buffer[f].page_id : f \in dirty}
             HeldIn(page) == CHOOSE f \in dirty : s.buffer[f].page_id = page
             data == [page \in written |-> s.buffer[HeldIn(page)].data]
             w == WriteFrames(s.disk, data)
             m == FlushAllFrames(s)
  <1>1. m = ShutDown(w)
    BY DEF FlushAllFrames
  <1>2. \A f \in dirty : /\ s.buffer[f].page_id \in DOMAIN s.page_table
                         /\ s.page_table[s.buffer[f].page_id] = f
                         /\ s.buffer[f].page_id \in PageIds
                         /\ s.buffer[f].data \in PageData
    <2> SUFFICES ASSUME NEW f \in Frames, s.buffer[f].is_dirty
                 PROVE  /\ s.buffer[f].page_id \in DOMAIN s.page_table
                        /\ s.page_table[s.buffer[f].page_id] = f
                        /\ s.buffer[f].page_id \in PageIds
                        /\ s.buffer[f].data \in PageData
      OBVIOUS
    <2>1. s.buffer[f].page_id # INVALID_PAGE_ID
      BY DEF PoolOK, FramesOK, EmptyFrame
    <2> QED
      BY <2>1, BufferFrame DEF PoolOK, FramesOK
  <1>3. written \subseteq PageIds
    BY <1>2
  <1>4. ASSUME NEW p \in written
        PROVE  /\ p \in DOMAIN s.page_table /\ s.page_table[p] \in dirty
               /\ data[p] = s.buffer[s.page_table[p]].data /\ data[p] \in PageData
    <2>1. PICK f \in dirty : s.buffer[f].page_id = p
      OBVIOUS
    <2>2. HeldIn(p) \in dirty /\ s.buffer[HeldIn(p)].page_id = p
      BY <2>1
    <2> HIDE DEF dirty
    <2> QED
      BY <1>2, <2>2
  <1>5. ASSUME NEW p \in DOMAIN s.page_table, s.buffer[s.page_table[p]].is_dirty
        PROVE  p \in written
    <2>1. s.page_table[p] \in dirty /\ s.buffer[s.page_table[p]].page_id = p
      BY <1>5 DEF PoolOK, FramesOK, IsMap
    <2> HIDE DEF dirty
    <2> QED
      BY <2>1
  <1>6. s.disk \in DiskType
    BY DEF PoolOK, PoolShape
  <1>7. DOMAIN data = written
    OBVIOUS
  <1> HIDE DEF data, written
  <1> DEFINE lengths == {s.disk.length} \cup {2 * p + 2 : p \in written}
  <1>8. /\ Sets!Max(lengths) \in 0 .. 2 * MaxPages
        /\ s.disk.length <= Sets!Max(lengths)
        /\ \A p \in written : 2 * p + 2 <= Sets!Max(lengths)
    <2>1. lengths \in SUBSET (0 .. 2 * MaxPages) /\ lengths # {}
      BY <1>3, <1>6, PoolAssumption DEF DiskType, PageIds
    <2>2. 2 * MaxPages \in Nat
      BY PoolAssumption
    <2>3. Sets!Max(lengths) \in lengths /\ \A x \in lengths : x <= Sets!Max(lengths)
      BY <2>1, <2>2, MaxBelow
    <2> QED
      BY <2>1, <2>3
  <1>9. /\ w \in DiskType /\ w.free_head = s.disk.free_head
        /\ w.failed = s.disk.failed
        /\ ~s.disk.failed =>
             /\ w.pages = [p \in PageIds |-> IF p \in written THEN data[p]
                                             ELSE s.disk.pages[p]]
             /\ w.length = Sets!Max(lengths)
    <2>1. [p \in PageIds |-> IF p \in written THEN data[p] ELSE s.disk.pages[p]]
            \in [PageIds -> PageData]
      BY <1>4, <1>6 DEF DiskType
    <2> HIDE DEF lengths
    <2>2. w = IF s.disk.failed THEN s.disk
              ELSE [s.disk EXCEPT
                      !.pages = [p \in PageIds |-> IF p \in written THEN data[p]
                                                   ELSE s.disk.pages[p]],
                      !.length = Sets!Max(lengths)]
      BY <1>7, Zenon DEF WriteFrames, lengths
    <2> HIDE DEF w
    <2> QED
      BY <1>6, <1>8, <2>1, <2>2 DEF DiskType
  <1> HIDE DEF w, lengths
  <1>10. /\ m \in DiskType /\ m.free_head = w.free_head /\ m.failed = w.failed
         /\ ~m.failed => /\ m.info = w.free_head /\ m.length = w.length
                         /\ m.pages = w.pages
    <2>1. w.free_head \in Int
      BY <1>9, PageOrNoneIsInt DEF DiskType
    <2> QED
      BY <1>1, <1>9, <2>1 DEF ShutDown, DiskType
  <1> HIDE DEF m, dirty
  <1>11. ASSUME ~m.failed, NEW p \in PageIds
         PROVE  LET f == s.page_table[p] IN
                IF Cached(s, p) /\ s.buffer[f].is_dirty
                THEN m.pages[p] = s.buffer[f].data /\ 2 * p + 2 <= m.length
                ELSE m.pages[p] = s.disk.pages[p]
    <2>1. Cached(s, p) /\ s.buffer[s.page_table[p]].is_dirty <=> p \in written
      BY <1>4, <1>5 DEF Cached, dirty
    <2> QED
      BY <1>4, <1>8, <1>9, <1>10, <1>11, <2>1
  <1> QED
    BY <1>8, <1>9, <1>10, <1>11 DEF m, DiskType

LEMMA OpenedOK ==
  ASSUME NEW d \in DiskType, d.info \in PageIds \cup {INVALID_PAGE_ID}
  PROVE  LET m == Opened(d)
         IN /\ m \in DiskType /\ ~m.failed
            /\ m.free_head = d.info /\ m.pages = d.pages /\ m.length = d.length
            /\ \A p \in PageIds : 2 * p + 2 <= d.length => p < m.size
  <1>1. d.length \div 2 \in 0 .. MaxPages
    BY PoolAssumption DEF DiskType
  <1>2. \A p \in PageIds : 2 * p + 2 <= d.length => p < d.length \div 2
    BY PoolAssumption DEF DiskType, PageIds
  <1>3. /\ Opened(d) \in DiskType /\ ~Opened(d).failed
        /\ Opened(d).free_head = d.info /\ Opened(d).pages = d.pages
        /\ Opened(d).length = d.length /\ Opened(d).size = d.length \div 2
    BY <1>1 DEF Opened, DiskType
  <1> QED
    BY <1>2, <1>3

-----------------------------------------------------------------------------
(* The file and the frames together.                                       *)
LEMMA PinsAreInvisible ==
  ASSUME NEW s, NEW r, NEW known, PoolOK(s), StoreOK(s, known),
         r.page_table = s.page_table, r.disk = s.disk,
         \A f \in Frames : /\ r.buffer[f].data = s.buffer[f].data
                           /\ s.buffer[f].is_dirty => r.buffer[f].is_dirty
  PROVE  StoreOK(r, known)
  <1>1. UsedOK(r, DOMAIN known)
    BY DEF StoreOK, UsedOK
  <1>2. ASSUME NEW free, FreeOK(s, DOMAIN known, free)
        PROVE  FreeOK(r, DOMAIN known, free)
    BY <1>2 DEF FreeOK
  <1>3. ASSUME KeptOK(s, known) PROVE KeptOK(r, known)
    <2>1. \A p \in DOMAIN s.page_table : s.page_table[p] \in Frames
      BY DEF PoolOK, FramesOK, IsMap
    <2> QED
      BY <1>3, <2>1 DEF KeptOK, Kept, Cached, InFile
  <1> QED
    BY <1>1, <1>2, <1>3 DEF StoreOK

(* A page in use is written to the file.                                   *)
LEMMA WriteKeepsChain ==
  ASSUME NEW d \in DiskType, NEW e \in DiskType, NEW free \in SUBSET PageIds,
         NEW page \in PageIds \ free, NEW data \in PageData,
         e = WriteFrame(d, page, data), ChainOK(d, free)
  PROVE  /\ ChainOK(e, free)
         /\ \A p \in PageIds : WholePage(d, p) => WholePage(e, p)
         /\ \A p \in PageIds \ {page} : e.pages[p] = d.pages[p]
         /\ ~d.failed => WholePage(e, page) /\ e.pages[page] = data
  <1>1. /\ e.size = d.size /\ e.free_head = d.free_head /\ e.failed = d.failed
        /\ d.failed => e = d
        /\ ~d.failed => /\ e.pages = [d.pages EXCEPT ![page] = data]
                        /\ e.length = MaxOf(d.length, 2 * page + 2)
    BY WriteFrameOK
  <1>2. /\ \A p \in PageIds \ {page} : e.pages[p] = d.pages[p]
        /\ ~d.failed => e.pages[page] = data
    BY <1>1 DEF DiskType
  <1>3. ChainOK(e, free)
    BY <1>1, <1>2 DEF ChainOK
  <1>4. /\ d.length <= e.length
        /\ ~d.failed => 2 * page + 2 <= e.length
    <2>1. d.length \in Nat /\ page \in Nat
      BY PageIdsAreNat DEF DiskType
    <2> QED
      BY <1>1, <2>1 DEF MaxOf
  <1>5. \A p \in PageIds : WholePage(d, p) => WholePage(e, p)
    <2>1. d.length \in Int /\ e.length \in Int /\ PageIds \subseteq Int
      BY PageIdsAreNat DEF DiskType
    <2> QED
      BY <1>4, <2>1 DEF WholePage
  <1> QED
    BY <1>2, <1>3, <1>4, <1>5 DEF WholePage

LEMMA EnsureFreeListStores ==
  ASSUME NEW s, NEW known, PoolOK(s), CanTakeFrame(s), StoreOK(s, known)
  PROVE  StoreOK(EnsureFreeList(s), known)
  <1> DEFINE r == EnsureFreeList(s)
  <1>1. PoolOK(r)
    BY EnsureFreeListOK
  <1>2. ASSUME NEW f \in Frames, Offered(s, f),
               r.buffer = [s.buffer EXCEPT ![f] = EmptyFrame],
               r.page_table = Uncached(s, s.buffer[f].page_id),
               r.disk = WrittenBack(s.disk, s.buffer[f])
        PROVE  StoreOK(r, known)
    <2> HIDE DEF r
    <2> DEFINE page == s.buffer[f].page_id
               data == s.buffer[f].data
    <2>1. /\ page # INVALID_PAGE_ID /\ page \in PageIds /\ data \in PageData
          /\ page \in DOMAIN s.page_table /\ s.page_table[page] = f
          /\ page \in DOMAIN known
      BY <1>2, BufferFrame DEF Offered, PoolOK, FramesOK, StoreOK, UsedOK
    <2>2. s.disk \in DiskType /\ r.disk \in DiskType
      BY <1>1 DEF PoolOK, PoolShape
    <2>3. /\ DOMAIN r.page_table = DOMAIN s.page_table \ {page}
          /\ \A p \in DOMAIN r.page_table :
               /\ r.page_table[p] = s.page_table[p] /\ s.page_table[p] \in Frames
               /\ s.page_table[p] # f
               /\ r.buffer[s.page_table[p]] = s.buffer[s.page_table[p]]
      BY <1>2 DEF Uncached, PoolOK, PoolShape, FramesOK, IsMap
    <2>4. CASE ~s.buffer[f].is_dirty
      <3>1. r.disk = s.disk
        BY <1>2, <2>4 DEF WrittenBack
      <3>2. UsedOK(r, DOMAIN known)
        BY <2>3, <3>1 DEF StoreOK, UsedOK
      <3>3. ASSUME NEW free, FreeOK(s, DOMAIN known, free)
            PROVE  FreeOK(r, DOMAIN known, free)
        BY <3>1, <3>3 DEF FreeOK
      <3>4. ASSUME KeptOK(s, known) PROVE KeptOK(r, known)
        <4>1. InFile(s, page, known[page])
          BY <2>1, <2>4, <3>4 DEF KeptOK, Kept, Cached
        <4> QED
          BY <2>1, <2>3, <3>1, <3>4, <4>1 DEF KeptOK, Kept, Cached, InFile
      <3> QED
        BY <3>2, <3>3, <3>4 DEF StoreOK
    <2>5. CASE s.buffer[f].is_dirty
      <3>1. r.disk = WriteFrame(s.disk, page, data)
        BY <1>2, <2>5 DEF WrittenBack
      <3>2. r.disk.size = s.disk.size /\ r.disk.failed = s.disk.failed
        <4> DEFINE e == WriteFrame(s.disk, page, data)
        <4>1. e.size = s.disk.size /\ e.failed = s.disk.failed
          BY <2>1, <2>2, WriteFrameOK
        <4>2. r.disk = e
          BY <3>1
        <4> HIDE DEF e
        <4> QED
          BY <4>1, <4>2
      <3>3. UsedOK(r, DOMAIN known)
        BY <2>3, <3>2 DEF StoreOK, UsedOK
      <3>4. ASSUME NEW free \in SUBSET PageIds, FreeOK(s, DOMAIN known, free)
            PROVE  /\ FreeOK(r, DOMAIN known, free)
                   /\ \A p \in PageIds : WholePage(s.disk, p) => WholePage(r.disk, p)
                   /\ \A p \in PageIds \ {page} : r.disk.pages[p] = s.disk.pages[p]
                   /\ ~s.disk.failed =>
                        WholePage(r.disk, page) /\ r.disk.pages[page] = data
        <4>1. page \in PageIds \ free /\ ChainOK(s.disk, free)
          BY <2>1, <3>4 DEF FreeOK
        <4>2. /\ ChainOK(r.disk, free)
              /\ \A p \in PageIds : WholePage(s.disk, p) => WholePage(r.disk, p)
              /\ \A p \in PageIds \ {page} : r.disk.pages[p] = s.disk.pages[p]
              /\ ~s.disk.failed =>
                   WholePage(r.disk, page) /\ r.disk.pages[page] = data
          BY <2>1, <2>2, <3>1, <4>1, WriteKeepsChain
        <4> QED
          BY <3>4, <4>2 DEF FreeOK
      <3>5. ASSUME KeptOK(s, known) PROVE KeptOK(r, known)
        <4>1. s.buffer[f].data = known[page]
          BY <2>1, <3>5 DEF KeptOK, Kept, Cached
        <4>2. /\ \A p \in PageIds : WholePage(s.disk, p) => WholePage(r.disk, p)
              /\ \A p \in PageIds \ {page} : r.disk.pages[p] = s.disk.pages[p]
              /\ WholePage(r.disk, page) /\ r.disk.pages[page] = data
          BY <3>4, <3>5 DEF StoreOK, KeptOK
        <4>3. ASSUME NEW p \in DOMAIN known PROVE Kept(r, p, known[p])
          <5>1. p \in PageIds /\ Kept(s, p, known[p])
            BY <3>5 DEF KeptOK, StoreOK, UsedOK
          <5>2. CASE p = page
            BY <2>3, <4>1, <4>2, <5>2 DEF Kept, Cached, InFile
          <5>3. CASE p # page
            BY <2>3, <4>2, <5>1, <5>3 DEF Kept, Cached, InFile
          <5> QED
            BY <5>2, <5>3
        <4> QED
          BY <3>2, <3>5, <4>3 DEF KeptOK
      <3> QED
        BY <3>3, <3>4, <3>5 DEF StoreOK
    <2> QED
      BY <2>4, <2>5
  <1> QED
    BY <1>2, EnsureFreeListOK

(* Fetching a page puts what the file has of it into a frame.              *)
LEMMA PutFetchedStores ==
  ASSUME NEW s, NEW known, PoolOK(s), StoreOK(s, known), s.free_list # <<>>,
         NEW page \in DOMAIN known, page \notin DOMAIN s.page_table
  PROVE  LET r == PutInFrame([s EXCEPT !.disk = ReadFrame(@, page)],
                             page, DataRead(s.disk, page))
             f == Seqs!Last(s.free_list)
         IN /\ PoolOK(r) /\ StoreOK(r, known)
            /\ f \in Frames /\ s.buffer[f] = EmptyFrame
            /\ r.page_table[page] = f
            /\ r.buffer[f].page_id = page /\ r.buffer[f].pin_count = 1
            /\ \A h \in Frames : h # f => r.buffer[h] = s.buffer[h]
  <1> DEFINE disk == ReadFrame(s.disk, page)
             data == DataRead(s.disk, page)
             t == [s EXCEPT !.disk = disk]
             r == PutInFrame(t, page, data)
             f == Seqs!Last(s.free_list)
             filled == [page_id |-> page, is_dirty |-> FALSE, pin_count |-> 1,
                        data |-> data]
  <1>1. s.disk \in DiskType /\ page \in PageIds
    BY DEF PoolOK, PoolShape, StoreOK, UsedOK
  <1>2. /\ disk \in DiskType /\ data \in PageData
        /\ disk.size = s.disk.size /\ disk.free_head = s.disk.free_head
        /\ disk.pages = s.disk.pages /\ disk.length = s.disk.length
        /\ disk.failed = (s.disk.failed \/ ~WholePage(s.disk, page))
    BY <1>1, ReadFrameOK
  <1> HIDE DEF disk
  <1>3. /\ PoolOK(t) /\ t.disk = disk /\ t.buffer = s.buffer
        /\ t.page_table = s.page_table /\ t.free_list = s.free_list
    BY <1>2, SetDiskOK
  <1> HIDE DEF t, data
  <1>4. /\ PoolOK(r) /\ f \in Frames /\ t.buffer[f] = EmptyFrame
        /\ r.buffer = [t.buffer EXCEPT ![f] = filled]
        /\ r.page_table = WithEntry(t, page, f) /\ r.disk = t.disk
    BY <1>1, <1>2, <1>3, PutInFrameOK
  <1> HIDE DEF f, r
  <1>5. /\ r.disk = disk
        /\ r.buffer[f] = filled
        /\ \A h \in Frames : h # f => r.buffer[h] = s.buffer[h]
        /\ DOMAIN r.page_table = DOMAIN s.page_table \cup {page}
        /\ r.page_table[page] = f
        /\ \A p \in DOMAIN s.page_table : /\ r.page_table[p] = s.page_table[p]
                                          /\ s.page_table[p] \in Frames \ {f}
    <2>1. \A p \in DOMAIN s.page_table :
            s.page_table[p] \in Frames /\ s.buffer[s.page_table[p]].page_id = p
      BY DEF PoolOK, FramesOK, IsMap
    <2>2. INVALID_PAGE_ID \notin DOMAIN s.page_table
      BY PageIdsAreNat DEF PoolOK, FramesOK, IsMap
    <2>3. s.buffer[f].page_id = INVALID_PAGE_ID
      BY <1>3, <1>4 DEF EmptyFrame
    <2> QED
      BY <1>3, <1>4, <2>1, <2>2, <2>3 DEF WithEntry, PoolOK, PoolShape
  <1>6. UsedOK(r, DOMAIN known)
    BY <1>2, <1>5 DEF StoreOK, UsedOK
  <1>7. ASSUME NEW free, FreeOK(s, DOMAIN known, free)
        PROVE  FreeOK(r, DOMAIN known, free)
    <2>1. ChainOK(disk, free)
      BY <1>2, <1>7 DEF FreeOK, ChainOK
    <2>2. \A p \in free : WholePage(s.disk, p) => WholePage(disk, p)
      BY <1>2 DEF WholePage
    <2> QED
      BY <1>5, <1>7, <2>1, <2>2 DEF FreeOK
  <1>8. ASSUME KeptOK(s, known) PROVE KeptOK(r, known)
    <2>1. InFile(s, page, known[page]) /\ ~s.disk.failed
      BY <1>8 DEF KeptOK, Kept, Cached
    <2>2. ~disk.failed
      BY <1>2, <2>1 DEF InFile
    <2>3. data = known[page]
      <3>1. ~(2 * page >= s.disk.length)
        <4>1. page \in Nat /\ s.disk.length \in Nat
          BY <1>1, PageIdsAreNat DEF DiskType
        <4> QED
          BY <2>1, <4>1 DEF InFile, WholePage
      <3> QED
        BY <2>1, <3>1 DEF InFile, DataRead, data
    <2>4. ASSUME NEW p \in DOMAIN known, p # page PROVE Kept(r, p, known[p])
      <3>1. Kept(s, p, known[p])
        BY <1>8 DEF KeptOK
      <3> QED
        BY <1>2, <1>5, <2>4, <3>1 DEF Kept, Cached, InFile, WholePage
    <2>5. Kept(r, page, known[page])
      BY <1>2, <1>5, <2>1, <2>3 DEF Kept, Cached, InFile, WholePage
    <2> QED
      BY <1>5, <1>8, <2>2, <2>4, <2>5 DEF KeptOK
  <1>9. StoreOK(r, known)
    BY <1>6, <1>7, <1>8 DEF StoreOK
  <1> QED
    BY <1>3, <1>4, <1>5, <1>9 DEF r, t, disk, data, f

(* A page is taken off the free list, or added to the file.                *)
LEMMA AllocateKeepsChain ==
  ASSUME NEW d \in DiskType, NEW free \in SUBSET PageIds, ChainOK(d, free),
         NextPage(d) \in PageIds
  PROVE  LET e == AllocateFrame(d)
             page == NextPage(d)
         IN /\ e \in DiskType
            /\ e.pages = d.pages /\ e.length = d.length /\ e.failed = d.failed
            /\ ChainOK(e, free \ {page})
            /\ page < e.size /\ d.size <= e.size
            /\ page \in free \/ page = d.size
  <1> DEFINE e == AllocateFrame(d)
             page == NextPage(d)
  <1>1. d.free_head # INVALID_PAGE_ID => d.free_head \in free
    BY DEF ChainOK
  <1>2. d.free_head # INVALID_PAGE_ID /\ ~d.failed =>
          d.pages[d.free_head][1] \in free \cup {INVALID_PAGE_ID}
    BY <1>1 DEF ChainOK
  <1>3. /\ e \in DiskType
        /\ e.pages = d.pages /\ e.length = d.length /\ e.failed = d.failed
        /\ d.free_head = INVALID_PAGE_ID =>
             e.size = d.size + 1 /\ e.free_head = INVALID_PAGE_ID
        /\ d.free_head # INVALID_PAGE_ID =>
             /\ e.size = d.size
             /\ e.free_head = IF d.failed THEN INVALID_PAGE_ID
                              ELSE d.pages[d.free_head][1]
    BY <1>2, AllocateFrameOK
  <1> HIDE DEF e
  <1>4. d.size \in Nat /\ PageIds \subseteq Nat
    BY PageIdsAreNat DEF DiskType
  <1>5. CASE d.free_head = INVALID_PAGE_ID
    <2>1. page = d.size /\ e.size = d.size + 1 /\ e.free_head = INVALID_PAGE_ID
      BY <1>3, <1>5 DEF NextPage
    <2>2. free \ {page} = free
      BY <1>4, <2>1 DEF ChainOK
    <2>3. ChainOK(e, free)
      BY <1>3, <1>4, <1>5, <2>1 DEF ChainOK
    <2> QED
      BY <1>3, <1>4, <2>1, <2>2, <2>3 DEF e
  <1>6. CASE d.free_head # INVALID_PAGE_ID
    <2>1. page = d.free_head /\ page \in free /\ page < d.size /\ e.size = d.size
      BY <1>1, <1>3, <1>6 DEF NextPage, ChainOK
    <2> HIDE DEF page
    <2>2. ChainOK(e, free \ {page})
      <3>1. CASE d.failed
        BY <1>3, <1>6, <2>1, <3>1 DEF ChainOK
      <3>2. CASE ~d.failed
        <4>1. /\ \A p \in free : d.pages[p][1] \in free \cup {INVALID_PAGE_ID}
              /\ \A p \in free : d.pages[p][1] # page
              /\ \A p, q \in free : d.pages[p][1] = d.pages[q][1] =>
                   p = q \/ d.pages[p][1] = INVALID_PAGE_ID
              /\ \A p \in free : p < d.size
          BY <1>6, <2>1, <3>2 DEF ChainOK
        <4>2. e.free_head = d.pages[page][1]
          BY <1>3, <1>6, <2>1, <3>2
        <4>3. e.free_head \in (free \ {page}) \cup {INVALID_PAGE_ID}
          BY <2>1, <4>1, <4>2
        <4>4. \A p \in free \ {page} :
                /\ p < e.size
                /\ e.pages[p][1] \in (free \ {page}) \cup {INVALID_PAGE_ID}
                /\ e.pages[p][1] = e.free_head => e.free_head = INVALID_PAGE_ID
          BY <1>3, <2>1, <4>1, <4>2
        <4>5. \A p, q \in free \ {page} : e.pages[p][1] = e.pages[q][1] =>
                p = q \/ e.pages[p][1] = INVALID_PAGE_ID
          BY <1>3, <4>1
        <4> QED
          BY <4>3, <4>4, <4>5 DEF ChainOK
      <3> QED
        BY <3>1, <3>2
    <2> QED
      BY <1>3, <1>4, <2>1, <2>2 DEF e, page
  <1> QED
    BY <1>5, <1>6

LEMMA FrameWritten ==
  ASSUME NEW b \in FrameType, NEW data \in PageData, NEW is_dirty \in BOOLEAN
  PROVE  LET c == [b EXCEPT !.data = data, !.is_dirty = is_dirty]
         IN /\ c \in FrameType /\ c.data = data /\ c.is_dirty = is_dirty
            /\ c.page_id = b.page_id /\ c.pin_count = b.pin_count
  BY DEF FrameType

LEMMA PutNewStores ==
  ASSUME NEW s, NEW known, PoolOK(s), StoreOK(s, known), s.free_list # <<>>,
         NextPage(s.disk) \in PageIds, NEW data \in Nat \X Nat,
         data = Zeros => "untouched" \in Habits
  PROVE  LET page == NextPage(s.disk)
             f == Seqs!Last(s.free_list)
             t == PutInFrame([s EXCEPT !.disk = AllocateFrame(@)], page, Zeros)
             b == [t.buffer[f] EXCEPT !.data = data, !.is_dirty = data # Zeros]
             r == [t EXCEPT !.buffer[f] = b]
             new == [p \in DOMAIN known \cup {page} |->
                       IF p = page THEN data ELSE known[p]]
         IN /\ page \notin DOMAIN known
            /\ PoolOK(r) /\ StoreOK(r, new)
            /\ f \in Frames /\ s.buffer[f] = EmptyFrame
            /\ r.page_table[page] = f
            /\ r.buffer[f].page_id = page /\ r.buffer[f].pin_count = 1
            /\ \A h \in Frames : h # f => r.buffer[h] = s.buffer[h]
  <1> DEFINE page == NextPage(s.disk)
             disk == AllocateFrame(s.disk)
             u == [s EXCEPT !.disk = disk]
             t == PutInFrame(u, page, Zeros)
             f == Seqs!Last(s.free_list)
             filled == [page_id |-> page, is_dirty |-> FALSE, pin_count |-> 1,
                        data |-> Zeros]
             b == [t.buffer[f] EXCEPT !.data = data, !.is_dirty = data # Zeros]
             r == [t EXCEPT !.buffer[f] = b]
             new == [p \in DOMAIN known \cup {page} |->
                       IF p = page THEN data ELSE known[p]]
  <1>1. s.disk \in DiskType /\ page \in PageIds
    BY DEF PoolOK, PoolShape
  <1>2. ASSUME NEW free \in SUBSET PageIds, FreeOK(s, DOMAIN known, free)
        PROVE  /\ disk \in DiskType
               /\ disk.pages = s.disk.pages /\ disk.length = s.disk.length
               /\ disk.failed = s.disk.failed
               /\ ChainOK(disk, free \ {page})
               /\ page < disk.size /\ s.disk.size <= disk.size
               /\ page \in free \/ page = s.disk.size
    BY <1>1, <1>2, AllocateKeepsChain DEF FreeOK
  <1>3. /\ disk \in DiskType
        /\ disk.pages = s.disk.pages /\ disk.length = s.disk.length
        /\ disk.failed = s.disk.failed
        /\ page < disk.size /\ s.disk.size <= disk.size
        /\ page \notin DOMAIN known
    <2>1. s.disk.size \in Nat
      BY <1>1 DEF DiskType
    <2>2. PICK free \in SUBSET PageIds : FreeOK(s, DOMAIN known, free)
      BY DEF StoreOK
    <2> HIDE DEF disk, page
    <2>3. page \notin DOMAIN known
      <3>1. \A p \in DOMAIN known : p < s.disk.size
        BY DEF StoreOK, UsedOK
      <3>2. page \in free \/ page = s.disk.size
        BY <1>2, <2>2
      <3> QED
        BY <2>1, <2>2, <3>1, <3>2 DEF FreeOK
    <2> QED
      BY <1>2, <2>2, <2>3
  <1> HIDE DEF disk, page
  <1>4. /\ PoolOK(u) /\ u.disk = disk /\ u.buffer = s.buffer
        /\ u.page_table = s.page_table /\ u.free_list = s.free_list
    BY <1>3, SetDiskOK
  <1> HIDE DEF u
  <1>5. page \notin DOMAIN u.page_table /\ Zeros \in PageData /\ data \in PageData
    BY <1>3, <1>4 DEF StoreOK, UsedOK, Zeros, PageData
  <1>6. /\ PoolOK(t) /\ f \in Frames /\ u.buffer[f] = EmptyFrame
        /\ t.buffer = [u.buffer EXCEPT ![f] = filled]
        /\ t.page_table = WithEntry(u, page, f) /\ t.disk = u.disk
    BY <1>1, <1>4, <1>5, PutInFrameOK
  <1> HIDE DEF f, t
  <1>7. /\ t.buffer[f] = filled /\ t.buffer[f] \in FrameType
        /\ \A h \in Frames : h # f => t.buffer[h] = s.buffer[h]
        /\ DOMAIN t.page_table = DOMAIN s.page_table \cup {page}
        /\ t.page_table[page] = f
        /\ \A p \in DOMAIN s.page_table : /\ t.page_table[p] = s.page_table[p]
                                          /\ s.page_table[p] \in Frames \ {f}
    <2>1. \A p \in DOMAIN s.page_table :
            s.page_table[p] \in Frames /\ s.buffer[s.page_table[p]].page_id = p
      BY DEF PoolOK, FramesOK, IsMap
    <2>2. INVALID_PAGE_ID \notin DOMAIN s.page_table
      BY PageIdsAreNat DEF PoolOK, FramesOK, IsMap
    <2>3. s.buffer[f].page_id = INVALID_PAGE_ID
      BY <1>4, <1>6 DEF EmptyFrame
    <2> QED
      <3>1. t.buffer[f] = filled /\ \A h \in Frames : h # f => t.buffer[h] = s.buffer[h]
        BY <1>4, <1>6 DEF PoolOK, PoolShape
      <3>2. t.buffer[f] \in FrameType
        BY <1>6, BufferFrame
      <3>3. \A p \in DOMAIN s.page_table : s.page_table[p] \in Frames \ {f} /\ p # page
        BY <1>4, <1>5, <2>1, <2>2, <2>3
      <3> HIDE DEF filled
      <3> QED
        BY <1>4, <1>6, <3>1, <3>2, <3>3 DEF WithEntry
  <1>8. /\ b \in FrameType /\ b.data = data /\ b.is_dirty = (data # Zeros)
        /\ b.page_id = page /\ b.pin_count = 1
    <2>1. (data # Zeros) \in BOOLEAN
      OBVIOUS
    <2>2. /\ b \in FrameType /\ b.data = data /\ b.is_dirty = (data # Zeros)
          /\ b.page_id = t.buffer[f].page_id /\ b.pin_count = t.buffer[f].pin_count
      BY <1>5, <1>7, <2>1, FrameWritten
    <2> HIDE DEF b
    <2> QED
      BY <1>7, <2>2
  <1> HIDE DEF b
  <1>9. /\ PoolOK(r) /\ r.buffer = [t.buffer EXCEPT ![f] = b]
        /\ r.page_table = t.page_table /\ r.disk = t.disk
    <2>1. /\ t.buffer[f].page_id = page /\ page # INVALID_PAGE_ID
          /\ t.buffer[f].pin_count # 0 /\ b.pin_count # 0
          /\ b.page_id = t.buffer[f].page_id
      BY <1>1, <1>7, <1>8, PageIdsAreNat
    <2>2. PoolOK(t) /\ f \in Frames /\ b \in FrameType
      BY <1>6, <1>8
    <2>3. t.buffer[f].page_id # INVALID_PAGE_ID
      BY <2>1
    <2>4. r = WithFrame(t, f, b)
      BY Zenon DEF WithFrame
    <2> HIDE DEF r
    <2> QED
      BY <2>1, <2>2, <2>3, <2>4, PinnedFrameOK
  <1> HIDE DEF r
  <1>10. /\ r.buffer[f] = b
         /\ \A h \in Frames : h # f => r.buffer[h] = s.buffer[h]
         /\ r.disk = disk
    BY <1>4, <1>6, <1>7, <1>9 DEF PoolOK, PoolShape
  <1>11. UsedOK(r, DOMAIN new)
    <2>1. DOMAIN new = DOMAIN known \cup {page}
      OBVIOUS
    <2>2. \A p \in DOMAIN known : p \in PageIds /\ p < s.disk.size
      BY DEF StoreOK, UsedOK
    <2>3. \A p \in DOMAIN known : p < disk.size
      <3>1. s.disk.size \in Nat /\ disk.size \in Nat /\ PageIds \subseteq Nat
        BY <1>1, <1>3, PageIdsAreNat DEF DiskType
      <3> QED
        BY <1>3, <2>2, <3>1
    <2> HIDE DEF new
    <2> QED
      BY <1>1, <1>3, <1>7, <1>9, <1>10, <2>1, <2>2, <2>3 DEF StoreOK, UsedOK
  <1>12. ASSUME NEW free \in SUBSET PageIds, FreeOK(s, DOMAIN known, free)
         PROVE  FreeOK(r, DOMAIN new, free \ {page})
    <2>1. ChainOK(disk, free \ {page})
      BY <1>2, <1>12
    <2>2. \A p \in free : WholePage(s.disk, p) => WholePage(disk, p)
      BY <1>3 DEF WholePage
    <2> QED
      BY <1>10, <1>12, <2>1, <2>2 DEF FreeOK
  <1>13. ASSUME "untouched" \notin Habits, KeptOK(s, known) PROVE KeptOK(r, new)
    <2>1. ASSUME NEW p \in DOMAIN known
          PROVE  p # page /\ new[p] = known[p] /\ Kept(r, p, known[p])
      <3>1. Kept(s, p, known[p]) /\ p # page
        BY <1>3, <1>13 DEF KeptOK
      <3> QED
        BY <1>3, <1>7, <1>9, <1>10, <3>1 DEF Kept, Cached, InFile, WholePage
    <2>2. Kept(r, page, data) /\ new[page] = data
      <3>1. b.is_dirty
        BY <1>8, <1>13
      <3>2. Cached(r, page) /\ r.page_table[page] = f
        BY <1>7, <1>9 DEF Cached
      <3> QED
        BY <1>8, <1>10, <3>1, <3>2 DEF Kept
    <2>3. ~r.disk.failed
      BY <1>3, <1>10, <1>13 DEF KeptOK
    <2>4. DOMAIN new = DOMAIN known \cup {page}
      OBVIOUS
    <2> HIDE DEF new
    <2> QED
      BY <1>13, <2>1, <2>2, <2>3, <2>4 DEF KeptOK
  <1>14. StoreOK(r, new)
    <2>1. PICK free \in SUBSET PageIds : FreeOK(s, DOMAIN known, free)
      BY DEF StoreOK
    <2>2. free \ {page} \in SUBSET PageIds
      BY <2>1
    <2> QED
      BY <1>11, <1>12, <1>13, <2>1, <2>2 DEF StoreOK
  <1> QED
    BY <1>3, <1>4, <1>6, <1>7, <1>8, <1>9, <1>10, <1>14 DEF r, b, t, u, disk, page, f

(* A client writes to the page in a frame that is pinned.                  *)
LEMMA WriteStores ==
  ASSUME NEW s, NEW known, PoolOK(s), StoreOK(s, known), NEW f \in Frames,
         s.buffer[f].page_id # INVALID_PAGE_ID, s.buffer[f].pin_count # 0,
         NEW data \in Nat \X Nat, NEW b \in FrameType, b.data = data, b.is_dirty,
         b.page_id = s.buffer[f].page_id, b.pin_count = s.buffer[f].pin_count,
         NEW new, DOMAIN new = DOMAIN known, new[s.buffer[f].page_id] = data,
         \A p \in DOMAIN known : p # s.buffer[f].page_id => new[p] = known[p]
  PROVE  LET r == WithFrame(s, f, b)
         IN /\ PoolOK(r) /\ StoreOK(r, new)
            /\ \A h \in Frames : /\ r.buffer[h].page_id = s.buffer[h].page_id
                                 /\ r.buffer[h].pin_count = s.buffer[h].pin_count
  <1> DEFINE page == s.buffer[f].page_id
             r == WithFrame(s, f, b)
  <1>1. /\ page \in DOMAIN s.page_table /\ s.page_table[page] = f
        /\ page \in DOMAIN known /\ page \in PageIds
    BY DEF PoolOK, FramesOK, StoreOK, UsedOK
  <1>3. b.data = data /\ b.is_dirty /\ b.pin_count = s.buffer[f].pin_count
    OBVIOUS
  <1>4. /\ PoolOK(r) /\ r.buffer = [s.buffer EXCEPT ![f] = b]
        /\ r.page_table = s.page_table /\ r.disk = s.disk
    BY PinnedFrameOK
  <1> HIDE DEF r
  <1>5. /\ r.buffer[f] = b
        /\ \A h \in Frames : h # f => r.buffer[h] = s.buffer[h]
    BY <1>4 DEF PoolOK, PoolShape
  <1>6. DOMAIN new = DOMAIN known
    BY <1>1
  <1>7. UsedOK(r, DOMAIN new)
    BY <1>4, <1>6 DEF StoreOK, UsedOK
  <1>8. ASSUME NEW free, FreeOK(s, DOMAIN known, free)
        PROVE  FreeOK(r, DOMAIN new, free)
    BY <1>4, <1>6, <1>8 DEF FreeOK
  <1>9. ASSUME KeptOK(s, known) PROVE KeptOK(r, new)
    <2>1. ASSUME NEW p \in DOMAIN known
          PROVE  new[p] \in Nat \X Nat /\ Kept(r, p, new[p])
      <3>1. CASE p = page
        BY <1>1, <1>3, <1>4, <1>5, <3>1 DEF Kept, Cached
      <3>2. CASE p # page
        <4>1. Kept(s, p, known[p]) /\ known[p] \in Nat \X Nat /\ new[p] = known[p]
          BY <1>9, <3>2 DEF KeptOK
        <4>2. p \in DOMAIN s.page_table =>
                s.page_table[p] \in Frames /\ s.page_table[p] # f
          BY <3>2 DEF PoolOK, FramesOK, IsMap
        <4> HIDE DEF page
        <4> QED
          BY <1>4, <1>5, <4>1, <4>2 DEF Kept, Cached, InFile
      <3> QED
        BY <3>1, <3>2
    <2> QED
      BY <1>4, <1>6, <1>9, <2>1 DEF KeptOK
  <1>10. StoreOK(r, new)
    BY <1>7, <1>8, <1>9 DEF StoreOK
  <1> QED
    BY <1>1, <1>3, <1>4, <1>5, <1>10 DEF r

LEMMA DeallocateKeepsChain ==
  ASSUME NEW d \in DiskType, NEW free \in SUBSET PageIds, ChainOK(d, free),
         NEW page \in PageIds \ free, page < d.size
  PROVE  LET e == DeallocateFrame(d, page)
         IN /\ e \in DiskType /\ e.size = d.size /\ e.failed = d.failed
            /\ ChainOK(e, free \cup {page})
            /\ \A p \in PageIds : WholePage(d, p) => WholePage(e, p)
            /\ \A p \in PageIds \ {page} : e.pages[p] = d.pages[p]
  <1> DEFINE e == DeallocateFrame(d, page)
  <1>1. /\ e \in DiskType
        /\ e.size = d.size /\ e.free_head = page /\ e.failed = d.failed
        /\ d.failed => e.pages = d.pages /\ e.length = d.length
        /\ ~d.failed =>
             /\ e.pages = [d.pages EXCEPT ![page] = <<d.free_head, @[2]>>]
             /\ e.length = MaxOf(d.length, 2 * page + 1)
    BY DeallocateFrameOK
  <1> HIDE DEF e
  <1>2. /\ \A p \in PageIds \ {page} : e.pages[p] = d.pages[p]
        /\ ~d.failed => e.pages[page][1] = d.free_head
    BY <1>1 DEF DiskType
  <1>3. d.length <= e.length
    <2>1. d.length \in Nat /\ page \in Nat
      BY PageIdsAreNat DEF DiskType
    <2> QED
      BY <1>1, <2>1 DEF MaxOf
  <1>4. \A p \in PageIds : WholePage(d, p) => WholePage(e, p)
    <2>1. d.length \in Int /\ e.length \in Int /\ PageIds \subseteq Int
      BY <1>1, PageIdsAreNat DEF DiskType
    <2> QED
      BY <1>3, <2>1 DEF WholePage
  <1>5. ChainOK(e, free \cup {page})
    <2>1. CASE d.failed
      BY <1>1, <2>1 DEF ChainOK
    <2>2. CASE ~d.failed
      <3>1. /\ d.free_head \in free \cup {INVALID_PAGE_ID}
            /\ \A p \in free : d.pages[p][1] \in free \cup {INVALID_PAGE_ID}
            /\ \A p \in free : d.pages[p][1] = d.free_head =>
                 d.free_head = INVALID_PAGE_ID
            /\ \A p, q \in free : d.pages[p][1] = d.pages[q][1] =>
                 p = q \/ d.pages[p][1] = INVALID_PAGE_ID
            /\ \A p \in free : p < d.size
        BY <2>2 DEF ChainOK
      <3>2. page # INVALID_PAGE_ID
        BY PageIdsAreNat
      <3>3. \A p \in free : e.pages[p][1] = d.pages[p][1]
        BY <1>2
      <3>4. e.pages[page][1] = d.free_head
        BY <1>2, <2>2
      <3>5. \A p \in free \cup {page} :
              /\ p < e.size
              /\ e.pages[p][1] \in (free \cup {page}) \cup {INVALID_PAGE_ID}
              /\ e.pages[p][1] # e.free_head
        BY <1>1, <3>1, <3>2, <3>3, <3>4
      <3>6. \A p, q \in free \cup {page} : e.pages[p][1] = e.pages[q][1] =>
              p = q \/ e.pages[p][1] = INVALID_PAGE_ID
        BY <3>1, <3>3, <3>4
      <3> QED
        BY <1>1, <3>5, <3>6 DEF ChainOK
    <2> QED
      BY <2>1, <2>2
  <1> QED
    BY <1>1, <1>2, <1>4, <1>5 DEF e

LEMMA DeleteStores ==
  ASSUME NEW s, NEW known, PoolOK(s), StoreOK(s, known),
         NEW page \in DOMAIN s.page_table,
         "delete" \notin Habits => WholePage(s.disk, page)
  PROVE  StoreOK(DeletePage(s, page), [p \in DOMAIN known \ {page} |-> known[p]])
  <1> DEFINE r == DeletePage(s, page)
             f == s.page_table[page]
             d == DeallocateFrame(s.disk, page)
             new == [p \in DOMAIN known \ {page} |-> known[p]]
  <1>1. /\ PoolOK(r) /\ f \in Frames /\ page \in PageIds
        /\ s.buffer[f].page_id = page
        /\ r.buffer = [s.buffer EXCEPT ![f] = EmptyFrame]
        /\ r.page_table = Uncached(s, page)
        /\ r.disk = d
    BY DeletePageOK
  <1> HIDE DEF r
  <1>2. /\ DOMAIN r.page_table = DOMAIN s.page_table \ {page}
        /\ \A p \in DOMAIN r.page_table :
             /\ r.page_table[p] = s.page_table[p] /\ s.page_table[p] \in Frames
             /\ s.page_table[p] # f
             /\ r.buffer[s.page_table[p]] = s.buffer[s.page_table[p]]
    BY <1>1 DEF Uncached, PoolOK, PoolShape, FramesOK, IsMap
  <1> HIDE DEF f
  <1>3. s.disk \in DiskType /\ page \in DOMAIN known /\ page < s.disk.size
    BY DEF PoolOK, PoolShape, StoreOK, UsedOK
  <1>4. ASSUME NEW free \in SUBSET PageIds, FreeOK(s, DOMAIN known, free)
        PROVE  /\ d.size = s.disk.size /\ d.failed = s.disk.failed
               /\ ChainOK(d, free \cup {page})
               /\ \A p \in PageIds : WholePage(s.disk, p) => WholePage(d, p)
               /\ \A p \in PageIds \ {page} : d.pages[p] = s.disk.pages[p]
    <2>1. page \in PageIds \ free /\ ChainOK(s.disk, free)
      BY <1>1, <1>3, <1>4 DEF FreeOK
    <2> QED
      BY <1>3, <2>1, DeallocateKeepsChain
  <1> HIDE DEF d
  <1>5. /\ d.size = s.disk.size /\ d.failed = s.disk.failed
        /\ \A p \in PageIds : WholePage(s.disk, p) => WholePage(d, p)
        /\ \A p \in PageIds \ {page} : d.pages[p] = s.disk.pages[p]
    BY <1>4 DEF StoreOK
  <1>6. DOMAIN new = DOMAIN known \ {page} /\ \A p \in DOMAIN new : new[p] = known[p]
    OBVIOUS
  <1> HIDE DEF new
  <1>7. UsedOK(r, DOMAIN new)
    BY <1>1, <1>2, <1>5, <1>6 DEF StoreOK, UsedOK
  <1>8. ASSUME NEW free \in SUBSET PageIds, FreeOK(s, DOMAIN known, free)
        PROVE  FreeOK(r, DOMAIN new, free \cup {page})
    <2>1. ChainOK(d, free \cup {page})
      BY <1>4, <1>8
    <2>2. free \cup {page} \subseteq PageIds \ DOMAIN new
      BY <1>1, <1>6, <1>8 DEF FreeOK
    <2>3. "delete" \notin Habits => \A p \in free \cup {page} : WholePage(d, p)
      BY <1>1, <1>5, <1>8 DEF FreeOK
    <2> QED
      BY <1>1, <2>1, <2>2, <2>3 DEF FreeOK
  <1>9. ASSUME KeptOK(s, known) PROVE KeptOK(r, new)
    <2>1. ASSUME NEW p \in DOMAIN new PROVE Kept(r, p, new[p])
      <3>1. /\ p \in PageIds \ {page} /\ p \in DOMAIN known
            /\ Kept(s, p, known[p]) /\ new[p] = known[p]
        BY <1>6, <1>9 DEF KeptOK, StoreOK, UsedOK
      <3> QED
        BY <1>1, <1>2, <1>5, <3>1 DEF Kept, Cached, InFile
    <2> QED
      BY <1>1, <1>5, <1>6, <1>9, <2>1 DEF KeptOK
  <1>10. StoreOK(r, new)
    <2>1. PICK free \in SUBSET PageIds : FreeOK(s, DOMAIN known, free)
      BY DEF StoreOK
    <2>2. free \cup {page} \in SUBSET PageIds
      BY <1>1, <2>1
    <2> QED
      BY <1>7, <1>8, <1>9, <2>1, <2>2 DEF StoreOK
  <1> QED
    BY <1>10 DEF r, new

LEMMA NothingStored ==
  ASSUME NEW disk \in DiskType, ~disk.failed, disk.free_head = INVALID_PAGE_ID
  PROVE  StoreOK(EmptyPool(disk), [p \in {} |-> Zeros])
  <1> DEFINE s == EmptyPool(disk)
             known == [p \in {} |-> Zeros]
  <1>1. s.disk = disk /\ DOMAIN s.page_table = {}
    BY EmptyPoolOK
  <1>2. DOMAIN known = {}
    OBVIOUS
  <1> HIDE DEF s, known
  <1>3. UsedOK(s, DOMAIN known)
    BY <1>1, <1>2 DEF UsedOK
  <1>4. FreeOK(s, DOMAIN known, {})
    BY <1>1 DEF FreeOK, ChainOK
  <1>5. KeptOK(s, known)
    BY <1>1, <1>2 DEF KeptOK
  <1> QED
    BY <1>3, <1>4, <1>5 DEF StoreOK, s, known

(* Unless a page that is in use or free was never written, all of them are *)
(* in the file when it is opened again.                                    *)
LEMMA ReopenStores ==
  ASSUME NEW s, NEW known, PoolOK(s), StoreOK(s, known),
         "delete" \notin Habits, "untouched" \notin Habits
  PROVE  LET r == EmptyPool(Opened(FlushAllFrames(s)))
         IN PoolOK(r) /\ StoreOK(r, known) /\ \A f \in Frames : r.buffer[f] = EmptyFrame
  <1> DEFINE m == FlushAllFrames(s)
             d == Opened(m)
             r == EmptyPool(d)
  <1>0. KeptOK(s, known) /\ s.disk \in DiskType
    BY DEF StoreOK, PoolOK, PoolShape
  <1>1. /\ m \in DiskType
        /\ m.free_head = s.disk.free_head /\ ~m.failed /\ m.info = m.free_head
        /\ m.length >= s.disk.length
        /\ \A p \in PageIds :
             IF Cached(s, p) /\ s.buffer[s.page_table[p]].is_dirty
             THEN /\ m.pages[p] = s.buffer[s.page_table[p]].data
                  /\ 2 * p + 2 <= m.length
             ELSE m.pages[p] = s.disk.pages[p]
    BY <1>0, FlushAllFramesOK DEF KeptOK
  <1> HIDE DEF m
  <1>2. m.info \in PageIds \cup {INVALID_PAGE_ID}
    BY <1>1 DEF DiskType
  <1>3. /\ d \in DiskType /\ ~d.failed
        /\ d.free_head = s.disk.free_head /\ d.pages = m.pages /\ d.length = m.length
        /\ \A p \in PageIds : 2 * p + 2 <= m.length => p < d.size
    BY <1>1, <1>2, OpenedOK
  <1> HIDE DEF d
  <1>4. /\ PoolOK(r) /\ r.disk = d /\ DOMAIN r.page_table = {}
        /\ \A f \in Frames : r.buffer[f] = EmptyFrame
    BY <1>3, EmptyPoolOK
  <1> HIDE DEF r
  <1>5. \A p \in PageIds : WholePage(s.disk, p) => WholePage(d, p)
    <2>1. s.disk.length \in Int /\ m.length \in Int /\ PageIds \subseteq Int
      BY <1>0, <1>1, PageIdsAreNat DEF DiskType
    <2> QED
      BY <1>1, <1>3, <2>1 DEF WholePage
  <1>6. ASSUME NEW p \in DOMAIN known
        PROVE  p \in PageIds /\ InFile(r, p, known[p]) /\ known[p] \in Nat \X Nat
    <2>1. p \in PageIds /\ Kept(s, p, known[p]) /\ known[p] \in Nat \X Nat
      BY <1>0 DEF KeptOK, StoreOK, UsedOK
    <2>2. CASE Cached(s, p) /\ s.buffer[s.page_table[p]].is_dirty
      BY <1>1, <1>3, <1>4, <2>1, <2>2 DEF Kept, InFile, WholePage
    <2>3. CASE ~(Cached(s, p) /\ s.buffer[s.page_table[p]].is_dirty)
      <3>1. InFile(s, p, known[p])
        BY <2>1, <2>3 DEF Kept
      <3> QED
        BY <1>1, <1>3, <1>4, <1>5, <2>1, <2>3, <3>1 DEF InFile
    <2> QED
      BY <2>1, <2>2, <2>3
  <1>7. UsedOK(r, DOMAIN known)
    <2>1. \A p \in DOMAIN known : p \in PageIds /\ p < d.size
      BY <1>3, <1>4, <1>6 DEF InFile, WholePage
    <2> QED
      BY <1>4, <2>1 DEF UsedOK
  <1>8. ASSUME NEW free \in SUBSET PageIds, FreeOK(s, DOMAIN known, free)
        PROVE  FreeOK(r, DOMAIN known, free)
    <2>1. \A p \in free : WholePage(d, p) /\ p < d.size
      BY <1>3, <1>5, <1>8 DEF FreeOK, WholePage
    <2>2. \A p \in free : d.pages[p] = s.disk.pages[p]
      <3>1. \A p \in free : p \notin DOMAIN s.page_table
        BY <1>8 DEF FreeOK, StoreOK, UsedOK
      <3> QED
        BY <1>1, <1>3, <3>1 DEF Cached
    <2>3. ChainOK(d, free)
      BY <1>0, <1>3, <1>8, <2>1, <2>2 DEF FreeOK, ChainOK, KeptOK
    <2> QED
      BY <1>4, <1>8, <2>1, <2>3 DEF FreeOK
  <1>9. KeptOK(r, known)
    BY <1>3, <1>4, <1>6 DEF KeptOK, Kept, Cached
  <1>10. StoreOK(r, known)
    BY <1>7, <1>8, <1>9 DEF StoreOK
  <1> QED
    BY <1>4, <1>10 DEF r, d, m

-----------------------------------------------------------------------------
(* The guards.                                                             *)
LEMMA HoldersCounted ==
  ASSUME NEW gs, NEW f
  PROVE  /\ IsFiniteSet(Holders(gs, f)) /\ Cardinality(Holders(gs, f)) \in Nat
         /\ Cardinality(Holders(gs, f)) = 0 <=> Holders(gs, f) = {}
  <1>1. Holders(gs, f) \subseteq Guards /\ IsFiniteSet(Guards)
    BY PoolAssumption DEF Holders
  <1>2. IsFiniteSet(Holders(gs, f))
    BY <1>1, FS_Subset
  <1> QED
    BY <1>2, FS_CardinalityType, FS_EmptySet

LEMMA HeldIsPinned ==
  ASSUME NEW s, NEW gs, GuardsOK(s, gs), NEW g \in Guards, Holds(gs, g)
  PROVE  /\ gs[g].frame \in Frames /\ gs[g].page \in PageIds
         /\ s.buffer[gs[g].frame].page_id = gs[g].page
         /\ s.buffer[gs[g].frame].pin_count # 0
         /\ gs[g].page # INVALID_PAGE_ID
  <1>1. g \in Holders(gs, gs[g].frame) /\ gs[g].frame \in Frames
    BY DEF Holders, Holds
  <1>2. Cardinality(Holders(gs, gs[g].frame)) # 0
    BY <1>1, HoldersCounted
  <1> QED
    BY <1>1, <1>2, PageIdsAreNat DEF GuardsOK

NewGuard(frame, page) == [frame |-> frame, page |-> page, stale |-> FALSE]

LEMMA ObtainGuards ==
  ASSUME NEW s, NEW gs, GuardsOK(s, gs), NEW g \in Guards, gs[g] = NoGuard,
         NEW frame \in Frames, NEW page \in PageIds, NEW r,
         r.buffer[frame].page_id = page,
         r.buffer[frame].pin_count = s.buffer[frame].pin_count + 1,
         \A f \in Frames : f # frame =>
           r.buffer[f].pin_count = s.buffer[f].pin_count,
         \A f \in Frames : s.buffer[f].pin_count # 0 =>
           r.buffer[f].page_id = s.buffer[f].page_id
  PROVE  GuardsOK(r, [gs EXCEPT ![g] = NewGuard(frame, page)])
  <1> DEFINE hs == [gs EXCEPT ![g] = NewGuard(frame, page)]
  <1>1. /\ hs[g] = NewGuard(frame, page)
        /\ \A h \in Guards : h # g => hs[h] = gs[h]
        /\ hs \in [Guards -> [frame : Frames \cup {-1},
                   page : PageIds \cup {INVALID_PAGE_ID}, stale : BOOLEAN]]
    BY DEF GuardsOK, NewGuard
  <1> HIDE DEF hs
  <1>2. NewGuard(frame, page).frame = frame /\ NewGuard(frame, page).page = page
        /\ ~NewGuard(frame, page).stale
    BY DEF NewGuard
  <1>3. ~Holds(gs, g)
    BY PoolAssumption DEF Holds, NoGuard
  <1>4. Holders(hs, frame) = Holders(gs, frame) \cup {g}
    BY <1>1, <1>2, <1>3 DEF Holders, Holds
  <1>5. \A f \in Frames : f # frame => Holders(hs, f) = Holders(gs, f)
    BY <1>1, <1>2, <1>3 DEF Holders, Holds
  <1>6. Cardinality(Holders(hs, frame)) = Cardinality(Holders(gs, frame)) + 1
    <2>1. g \notin Holders(gs, frame)
      BY <1>3 DEF Holders
    <2> QED
      BY <1>4, <2>1, HoldersCounted, FS_AddElement
  <1>7. \A f \in Frames : r.buffer[f].pin_count = Cardinality(Holders(hs, f))
    BY <1>5, <1>6 DEF GuardsOK
  <1>8. ASSUME NEW h \in Guards, Holds(hs, h)
        PROVE  r.buffer[hs[h].frame].page_id = hs[h].page /\ hs[h].page \in PageIds
    <2>1. CASE h = g
      BY <1>1, <1>2, <2>1
    <2>2. CASE h # g
      <3>1. Holds(gs, h) /\ hs[h] = gs[h]
        BY <1>1, <1>8, <2>2 DEF Holds
      <3> QED
        BY <3>1, HeldIsPinned
    <2> QED
      BY <2>1, <2>2
  <1>9. \A h \in Guards : hs[h] = NoGuard \/ hs[h].frame \in Frames
    BY <1>1, <1>2 DEF GuardsOK
  <1> QED
    BY <1>1, <1>7, <1>8, <1>9 DEF GuardsOK, hs

LEMMA NoGuardOK ==
  /\ NoGuard \in [frame : Frames \cup {-1}, page : PageIds \cup {INVALID_PAGE_ID},
                  stale : BOOLEAN]
  /\ NoGuard.frame \notin Frames
  BY PoolAssumption DEF NoGuard

LEMMA ReleaseGuards ==
  ASSUME NEW s, NEW gs, GuardsOK(s, gs), NEW g \in Guards, Holds(gs, g), NEW r,
         r.buffer[gs[g].frame].pin_count = s.buffer[gs[g].frame].pin_count - 1,
         \A f \in Frames : f # gs[g].frame =>
           r.buffer[f].pin_count = s.buffer[f].pin_count,
         \A f \in Frames : r.buffer[f].page_id = s.buffer[f].page_id
  PROVE  GuardsOK(r, [gs EXCEPT ![g] = NoGuard])
  <1> DEFINE hs == [gs EXCEPT ![g] = NoGuard]
             frame == gs[g].frame
  <1>1. /\ hs[g] = NoGuard
        /\ \A h \in Guards : h # g => hs[h] = gs[h]
        /\ hs \in [Guards -> [frame : Frames \cup {-1},
                   page : PageIds \cup {INVALID_PAGE_ID}, stale : BOOLEAN]]
    BY NoGuardOK DEF GuardsOK
  <1>0. frame \in Frames
    BY DEF Holds
  <1> HIDE DEF hs
  <1>3. ~Holds(hs, g)
    BY <1>1, NoGuardOK DEF Holds
  <1>4. Holders(hs, frame) = Holders(gs, frame) \ {g} /\ g \in Holders(gs, frame)
    BY <1>1, <1>3 DEF Holders, Holds
  <1>5. \A f \in Frames : f # frame => Holders(hs, f) = Holders(gs, f)
    BY <1>1, <1>3 DEF Holders, Holds
  <1>6. Cardinality(Holders(hs, frame)) = Cardinality(Holders(gs, frame)) - 1
    <2>1. IsFiniteSet(Holders(gs, frame))
      BY HoldersCounted
    <2> QED
      BY <1>4, <2>1, FS_RemoveElement
  <1>7. \A f \in Frames : r.buffer[f].pin_count = Cardinality(Holders(hs, f))
    BY <1>0, <1>5, <1>6 DEF GuardsOK
  <1>8. ASSUME NEW h \in Guards, Holds(hs, h)
        PROVE  r.buffer[hs[h].frame].page_id = hs[h].page /\ hs[h].page \in PageIds
    <2>1. h # g /\ Holds(gs, h) /\ hs[h] = gs[h]
      BY <1>1, <1>3, <1>8 DEF Holds
    <2> QED
      BY <2>1, HeldIsPinned
  <1>9. \A h \in Guards : hs[h] = NoGuard \/ hs[h].frame \in Frames
    BY <1>1 DEF GuardsOK
  <1> QED
    BY <1>1, <1>7, <1>8, <1>9 DEF GuardsOK, hs

(* Guards that hold nothing before or after do not count.                  *)
LEMMA SameHolders ==
  ASSUME NEW s, NEW gs, GuardsOK(s, gs), NEW r,
         \A f \in Frames : /\ r.buffer[f].page_id = s.buffer[f].page_id
                           /\ r.buffer[f].pin_count = s.buffer[f].pin_count
  PROVE  /\ GuardsOK(r, gs)
         /\ \A g \in Guards : ~Holds(gs, g) => GuardsOK(r, [gs EXCEPT ![g] = NoGuard])
  <1>1. GuardsOK(r, gs)
    BY DEF GuardsOK, Holds
  <1>2. ASSUME NEW g \in Guards, ~Holds(gs, g)
        PROVE  GuardsOK(r, [gs EXCEPT ![g] = NoGuard])
    <2> DEFINE hs == [gs EXCEPT ![g] = NoGuard]
    <2>1. /\ hs[g] = NoGuard
          /\ \A h \in Guards : h # g => hs[h] = gs[h]
          /\ hs \in [Guards -> [frame : Frames \cup {-1},
                     page : PageIds \cup {INVALID_PAGE_ID}, stale : BOOLEAN]]
      BY NoGuardOK DEF GuardsOK
    <2> HIDE DEF hs
    <2>2. ~Holds(hs, g)
      BY <2>1, NoGuardOK DEF Holds
    <2>3. \A f \in Frames : Holders(hs, f) = Holders(gs, f)
      BY <1>2, <2>1, <2>2 DEF Holders, Holds
    <2>4. \A h \in Guards : Holds(hs, h) => Holds(gs, h) /\ hs[h] = gs[h]
      BY <2>1, <2>2 DEF Holds
    <2> QED
      BY <1>1, <2>1, <2>3, <2>4 DEF GuardsOK, hs
  <1> QED
    BY <1>1, <1>2

(* The deleted page's guards lose it; everybody else keeps theirs.         *)
LEMMA DeleteGuards ==
  ASSUME NEW s, PoolOK(s), NEW gs, GuardsOK(s, gs), NEW g \in Guards, Holds(gs, g),
         NEW r, r.buffer = [s.buffer EXCEPT ![gs[g].frame] = EmptyFrame]
  PROVE  LET page == gs[g].page
         IN GuardsOK(r, [h \in Guards |->
              CASE h = g -> NoGuard
                [] h # g /\ gs[h].page = page -> [gs[h] EXCEPT !.stale = TRUE]
                [] OTHER -> gs[h]])
  <1> DEFINE page == gs[g].page
             frame == gs[g].frame
             hs == [h \in Guards |->
              CASE h = g -> NoGuard
                [] h # g /\ gs[h].page = page -> [gs[h] EXCEPT !.stale = TRUE]
                [] OTHER -> gs[h]]
  <1>1. /\ frame \in Frames /\ page \in PageIds /\ page # INVALID_PAGE_ID
        /\ s.buffer[frame].page_id = page
    BY HeldIsPinned
  <1>2. s.buffer \in [Frames -> FrameType]
    BY DEF PoolOK, PoolShape
  <1>3. r.buffer[frame] = EmptyFrame /\ \A f \in Frames : f # frame => r.buffer[f] = s.buffer[f]
    BY <1>1, <1>2
  <1>4. hs[g] = NoGuard /\ ~Holds(hs, g)
    BY NoGuardOK DEF Holds
  <1>5. ASSUME NEW h \in Guards, h # g, gs[h].page # page
        PROVE  hs[h] = gs[h]
    BY <1>5
  <1>6. ASSUME NEW h \in Guards, h # g, gs[h].page = page
        PROVE  /\ hs[h] \in [frame : Frames \cup {-1}, page : PageIds \cup {INVALID_PAGE_ID},
                             stale : BOOLEAN]
               /\ hs[h].frame = gs[h].frame /\ hs[h].stale
    <2>1. hs[h] = [gs[h] EXCEPT !.stale = TRUE]
      BY <1>6
    <2>2. gs[h] \in [frame : Frames \cup {-1}, page : PageIds \cup {INVALID_PAGE_ID},
                     stale : BOOLEAN]
      BY DEF GuardsOK
    <2> HIDE DEF hs
    <2> QED
      BY <2>1, <2>2
  <1>7. DOMAIN hs = Guards /\ hs = [h \in Guards |-> hs[h]]
    OBVIOUS
  <1> HIDE DEF hs
  <1>8. hs \in [Guards -> [frame : Frames \cup {-1}, page : PageIds \cup {INVALID_PAGE_ID},
                           stale : BOOLEAN]]
    <2>1. \A h \in Guards : hs[h] \in [frame : Frames \cup {-1},
                              page : PageIds \cup {INVALID_PAGE_ID}, stale : BOOLEAN]
      BY <1>4, <1>5, <1>6, NoGuardOK DEF GuardsOK
    <2> QED
      BY <1>7, <2>1
  <1>9. \A h \in Guards : hs[h] = NoGuard \/ hs[h].frame \in Frames
    <2>1. ASSUME NEW h \in Guards, h # g, gs[h].page = page
          PROVE  hs[h].frame \in Frames
      <3>1. gs[h] # NoGuard
        BY <1>1, <2>1 DEF NoGuard
      <3> QED
        BY <1>6, <2>1, <3>1 DEF GuardsOK
    <2> QED
      BY <1>4, <1>5, <2>1 DEF GuardsOK
  <1>10. \A h \in Guards : Holds(hs, h) <=> Holds(gs, h) /\ h # g /\ gs[h].page # page
    BY <1>4, <1>5, <1>6 DEF Holds
  <1>11. ASSUME NEW h \in Guards, Holds(hs, h)
         PROVE  r.buffer[hs[h].frame].page_id = hs[h].page /\ hs[h].page \in PageIds
    <2>1. Holds(gs, h) /\ hs[h] = gs[h] /\ gs[h].page # page
      BY <1>5, <1>10, <1>11
    <2>2. /\ gs[h].frame \in Frames /\ gs[h].page \in PageIds
          /\ s.buffer[gs[h].frame].page_id = gs[h].page
      BY <2>1, HeldIsPinned
    <2> QED
      BY <1>1, <1>3, <2>1, <2>2
  <1>12. ASSUME NEW f \in Frames
         PROVE  r.buffer[f].pin_count = Cardinality(Holders(hs, f))
    <2>1. CASE f = frame
      <3>1. \A h \in Guards : Holds(gs, h) /\ gs[h].frame = frame => gs[h].page = page
        BY <1>1, HeldIsPinned
      <3>2. Holders(hs, f) = {}
        BY <1>5, <1>10, <2>1, <3>1 DEF Holders
      <3> QED
        BY <1>3, <2>1, <3>2, HoldersCounted DEF EmptyFrame
    <2>2. CASE f # frame
      <3>1. \A h \in Guards : Holds(gs, h) /\ gs[h].frame = f => gs[h].page # page
        <4>1. ASSUME NEW h \in Guards, Holds(gs, h), gs[h].frame = f, gs[h].page = page
              PROVE  FALSE
          <5>1. s.buffer[f].page_id = page
            BY <4>1, HeldIsPinned
          <5> QED
            BY <1>1, <2>2, <5>1, UsedFrame
        <4> QED
          BY <4>1
      <3>2. \A h \in Guards : Holds(hs, h) /\ hs[h].frame = f
              <=> Holds(gs, h) /\ gs[h].frame = f
        <4>1. \A h \in Guards : Holds(hs, h) => hs[h] = gs[h]
          BY <1>5, <1>10
        <4>2. \A h \in Guards : Holds(gs, h) /\ gs[h].frame = f => h # g /\ hs[h] = gs[h]
          BY <1>5, <2>2, <3>1
        <4> QED
          BY <1>10, <3>1, <4>1, <4>2
      <3>3. Holders(hs, f) = Holders(gs, f)
        BY <3>2 DEF Holders
      <3> QED
        BY <1>3, <2>2, <3>3 DEF GuardsOK
    <2> QED
      BY <2>1, <2>2
  <1>13. GuardsOK(r, hs)
    BY <1>8, <1>9, <1>11, <1>12 DEF GuardsOK
  <1> QED
    BY <1>13 DEF hs

(* An eviction takes a frame nobody has pinned.                            *)
LEMMA EnsureKeepsPins ==
  ASSUME NEW s, PoolOK(s), CanTakeFrame(s), NEW f \in Frames
  PROVE  LET r == EnsureFreeList(s)
         IN /\ r.buffer[f].pin_count = s.buffer[f].pin_count
            /\ s.buffer[f].pin_count # 0 => r.buffer[f] = s.buffer[f]
  <1> DEFINE r == EnsureFreeList(s)
  <1>1. \/ r = s
        \/ \E e \in Frames : Offered(s, e) /\ r.buffer = [s.buffer EXCEPT ![e] = EmptyFrame]
    BY EnsureFreeListOK
  <1>2. s.buffer \in [Frames -> FrameType]
    BY DEF PoolOK, PoolShape
  <1> HIDE DEF r
  <1>3. CASE r = s
    BY <1>3 DEF r
  <1>4. ASSUME NEW e \in Frames, Offered(s, e), r.buffer = [s.buffer EXCEPT ![e] = EmptyFrame]
        PROVE  /\ r.buffer[f].pin_count = s.buffer[f].pin_count
               /\ s.buffer[f].pin_count # 0 => r.buffer[f] = s.buffer[f]
    <2>1. s.buffer[e].pin_count = 0
      BY <1>4 DEF Offered
    <2>2. CASE f = e
      BY <1>2, <1>4, <2>1, <2>2 DEF EmptyFrame
    <2>3. CASE f # e
      BY <1>2, <1>4, <2>3
    <2> QED
      BY <2>2, <2>3
  <1> QED
    BY <1>1, <1>3, <1>4 DEF r

-----------------------------------------------------------------------------
(* The invariant holds when the program starts, and every action of the    *)
(* clients keeps it.                                                       *)
LEMMA InitInv == Init => PoolInv
  <1> SUFFICES ASSUME Init PROVE PoolInv
    OBVIOUS
  <1> DEFINE known == [p \in {} |-> Zeros]
  <1>1. PoolOK(pool) /\ \A f \in Frames : pool.buffer[f] = EmptyFrame
    BY NewDiskOK, EmptyPoolOK DEF Init
  <1>2. StoreOK(pool, latest)
    <2>1. ~NewDisk.failed /\ NewDisk.free_head = INVALID_PAGE_ID
      BY DEF NewDisk
    <2> QED
      BY <2>1, NewDiskOK, NothingStored DEF Init
  <1>3. guards \in [Guards -> [frame : Frames \cup {-1},
                    page : PageIds \cup {INVALID_PAGE_ID}, stale : BOOLEAN]]
        /\ \A g \in Guards : guards[g] = NoGuard /\ ~Holds(guards, g)
    BY NoGuardOK DEF Init, Holds
  <1>4. \A f \in Frames : Holders(guards, f) = {}
    BY <1>3 DEF Holders
  <1>5. \A f \in Frames : pool.buffer[f].pin_count = Cardinality(Holders(guards, f))
    <2>1. EmptyFrame.pin_count = 0
      BY DEF EmptyFrame
    <2> QED
      BY <1>1, <1>4, <2>1, FS_EmptySet
  <1>6. GuardsOK(pool, guards)
    BY <1>3, <1>5 DEF GuardsOK
  <1> QED
    BY <1>1, <1>2, <1>6 DEF PoolInv

(* What obtaining a guard needs of the pool, wherever the page comes from. *)
LEMMA Obtained ==
  ASSUME PoolInv, NEW g \in Guards, Idle(g), CanTakeFrame(pool), NEW page \in PageIds,
         NEW f \in Frames, EnsureFreeList(pool).buffer[f] = EmptyFrame,
         pool'.page_table[page] = f, pool'.buffer[f].page_id = page,
         pool'.buffer[f].pin_count = 1,
         \A h \in Frames : h # f => pool'.buffer[h] = EnsureFreeList(pool).buffer[h],
         Obtain(g, page)
  PROVE  GuardsOK(pool', guards')
  <1> DEFINE room == EnsureFreeList(pool)
  <1>1. PoolOK(pool) /\ GuardsOK(pool, guards)
    BY DEF PoolInv
  <1>2. \A h \in Frames : /\ room.buffer[h].pin_count = pool.buffer[h].pin_count
                          /\ pool.buffer[h].pin_count # 0 => room.buffer[h] = pool.buffer[h]
    BY <1>1, EnsureKeepsPins
  <1> HIDE DEF room
  <1>3. room.buffer[f] = EmptyFrame /\ \A h \in Frames : h # f => pool'.buffer[h] = room.buffer[h]
    BY DEF room
  <1>4. pool.buffer[f].pin_count = 0
    BY <1>2, <1>3 DEF EmptyFrame
  <1>5. /\ pool'.buffer[f].pin_count = pool.buffer[f].pin_count + 1
        /\ \A h \in Frames : h # f => pool'.buffer[h].pin_count = pool.buffer[h].pin_count
        /\ \A h \in Frames : pool.buffer[h].pin_count # 0 =>
             pool'.buffer[h].page_id = pool.buffer[h].page_id
    BY <1>2, <1>3, <1>4
  <1>6. guards' = [guards EXCEPT ![g] = NewGuard(f, page)]
    BY DEF Obtain, NewGuard
  <1>7. GuardsOK(pool', [guards EXCEPT ![g] = NewGuard(f, page)])
    <2>1. guards[g] = NoGuard
      BY DEF Idle
    <2> QED
      BY <1>1, <1>5, <2>1, ObtainGuards
  <1> QED
    BY <1>6, <1>7

LEMMA NewPageInv ==
  ASSUME PoolInv, NEW g \in Guards, NEW data \in {Zeros, Initialised}, NewPage(g, data)
  PROVE  /\ PoolInv'
         /\ \E page \in PageIds \ DOMAIN latest :
              latest' = [p \in DOMAIN latest \cup {page} |->
                           IF p = page THEN data ELSE latest[p]]
  <1> DEFINE room == EnsureFreeList(pool)
             page == NextPage(room.disk)
             f == Seqs!Last(room.free_list)
             t == PutInFrame([room EXCEPT !.disk = AllocateFrame(@)], page, Zeros)
             r == [t EXCEPT !.buffer[f] =
                     [t.buffer[f] EXCEPT !.data = data, !.is_dirty = data # Zeros]]
             new == [p \in DOMAIN latest \cup {page} |->
                       IF p = page THEN data ELSE latest[p]]
  <1>1. /\ Idle(g) /\ CanTakeFrame(pool) /\ page \in PageIds
        /\ data = Zeros => "untouched" \in Habits
        /\ pool' = r /\ Obtain(g, page) /\ latest' = new
    BY DEF NewPage, NewFrame, Know
  <1>2. /\ PoolOK(pool) /\ StoreOK(pool, latest)
    BY DEF PoolInv
  <1>3. PoolOK(room) /\ room.free_list # <<>> /\ StoreOK(room, latest)
    BY <1>1, <1>2, EnsureFreeListOK, EnsureFreeListStores
  <1>4. data \in Nat \X Nat
    BY DEF Zeros, Initialised
  <1> HIDE DEF room
  <1>5. /\ page \notin DOMAIN latest
        /\ PoolOK(r) /\ StoreOK(r, new)
        /\ f \in Frames /\ room.buffer[f] = EmptyFrame
        /\ r.page_table[page] = f
        /\ r.buffer[f].page_id = page /\ r.buffer[f].pin_count = 1
        /\ \A h \in Frames : h # f => r.buffer[h] = room.buffer[h]
    BY <1>1, <1>3, <1>4, PutNewStores
  <1> HIDE DEF r, new, page, f
  <1>6. /\ PoolOK(pool') /\ StoreOK(pool', latest')
        /\ pool'.page_table[page] = f
        /\ pool'.buffer[f].page_id = page /\ pool'.buffer[f].pin_count = 1
        /\ \A h \in Frames : h # f => pool'.buffer[h] = room.buffer[h]
    BY <1>1, <1>5
  <1>7. GuardsOK(pool', guards')
    BY <1>1, <1>5, <1>6, Obtained DEF room
  <1>8. PoolInv'
    BY <1>6, <1>7 DEF PoolInv
  <1> QED
    BY <1>1, <1>5, <1>8 DEF new

LEMMA FetchInv ==
  ASSUME PoolInv, NEW g \in Guards, NEW page \in PageIds, Fetch(g, page)
  PROVE  PoolInv'
  <1>1. /\ Idle(g) /\ page \in DOMAIN latest
        /\ Cached(pool, page) \/ CanTakeFrame(pool)
        /\ pool' = FetchFrame(pool, page) /\ Obtain(g, page) /\ latest' = latest
    BY DEF Fetch
  <1>2. PoolOK(pool) /\ GuardsOK(pool, guards) /\ StoreOK(pool, latest)
    BY DEF PoolInv
  <1>3. CASE Cached(pool, page)
    <2> DEFINE f == pool.page_table[page]
               b == [pool.buffer[f] EXCEPT !.pin_count = @ + 1]
    <2>1. page \in DOMAIN pool.page_table /\ pool' = FetchCached(pool, page)
      BY <1>1, <1>3 DEF Cached, FetchFrame
    <2>2. /\ PoolOK(pool')
          /\ f \in Frames /\ pool.buffer[f].page_id = page
          /\ pool'.buffer = [pool.buffer EXCEPT ![f] = b]
          /\ pool'.page_table = pool.page_table /\ pool'.disk = pool.disk
      BY <1>2, <2>1, FetchCachedOK
    <2>3. pool.buffer \in [Frames -> FrameType] /\ pool.buffer[f] \in FrameType
      BY <1>2, <2>2 DEF PoolOK, PoolShape
    <2>4. /\ b.page_id = page /\ b.pin_count = pool.buffer[f].pin_count + 1
          /\ b.data = pool.buffer[f].data /\ b.is_dirty = pool.buffer[f].is_dirty
      BY <2>2, <2>3 DEF FrameType
    <2> HIDE DEF b, f
    <2>5. pool'.buffer[f] = b /\ \A h \in Frames : h # f => pool'.buffer[h] = pool.buffer[h]
      BY <2>2, <2>3
    <2>6. \A h \in Frames : /\ pool'.buffer[h].data = pool.buffer[h].data
                            /\ pool.buffer[h].is_dirty => pool'.buffer[h].is_dirty
                            /\ pool'.buffer[h].page_id = pool.buffer[h].page_id
      BY <2>2, <2>4, <2>5
    <2>7. StoreOK(pool', latest')
      BY <1>1, <1>2, <2>2, <2>6, PinsAreInvisible
    <2>8. guards' = [guards EXCEPT ![g] = NewGuard(f, page)]
      BY <1>1, <2>2 DEF Obtain, NewGuard, f
    <2>9. GuardsOK(pool', guards')
      <3>1. /\ guards[g] = NoGuard
            /\ pool'.buffer[f].page_id = page
            /\ pool'.buffer[f].pin_count = pool.buffer[f].pin_count + 1
            /\ \A h \in Frames : h # f => pool'.buffer[h].pin_count = pool.buffer[h].pin_count
            /\ \A h \in Frames : pool.buffer[h].pin_count # 0 =>
                 pool'.buffer[h].page_id = pool.buffer[h].page_id
        BY <1>1, <2>4, <2>5, <2>6 DEF Idle
      <3>2. GuardsOK(pool', [guards EXCEPT ![g] = NewGuard(f, page)])
        BY <1>2, <2>2, <3>1, ObtainGuards
      <3> QED
        BY <2>8, <3>2
    <2> QED
      BY <2>2, <2>7, <2>9 DEF PoolInv
  <1>4. CASE ~Cached(pool, page)
    <2> DEFINE room == EnsureFreeList(pool)
               f == Seqs!Last(room.free_list)
    <2>1. CanTakeFrame(pool)
      BY <1>1, <1>4
    <2>2. pool' = PutInFrame([room EXCEPT !.disk = ReadFrame(@, page)],
                             page, DataRead(room.disk, page))
      BY <1>1, <1>4 DEF FetchFrame
    <2>3. PoolOK(room) /\ room.free_list # <<>> /\ StoreOK(room, latest)
      BY <1>2, <2>1, EnsureFreeListOK, EnsureFreeListStores
    <2>4. page \notin DOMAIN room.page_table
      <3>1. room = pool \/ \E e : room.page_table = Uncached(pool, pool.buffer[e].page_id)
        BY <1>2, <2>1, EnsureFreeListOK
      <3> HIDE DEF room
      <3> QED
        BY <1>4, <3>1 DEF Cached, Uncached
    <2> HIDE DEF room
    <2>5. /\ PoolOK(pool') /\ StoreOK(pool', latest)
          /\ f \in Frames /\ room.buffer[f] = EmptyFrame
          /\ pool'.page_table[page] = f
          /\ pool'.buffer[f].page_id = page /\ pool'.buffer[f].pin_count = 1
          /\ \A h \in Frames : h # f => pool'.buffer[h] = room.buffer[h]
      BY <1>1, <2>2, <2>3, <2>4, PutFetchedStores
    <2> HIDE DEF f
    <2>6. GuardsOK(pool', guards')
      BY <1>1, <2>1, <2>5, Obtained DEF room
    <2> QED
      BY <1>1, <2>5, <2>6 DEF PoolInv
  <1> QED
    BY <1>3, <1>4

LEMMA LiveGuard ==
  ASSUME PoolInv, NEW g \in Guards, Live(g)
  PROVE  /\ Holds(guards, g)
         /\ guards[g].frame \in Frames /\ guards[g].page \in PageIds
         /\ pool.buffer[guards[g].frame].page_id = guards[g].page
         /\ pool.buffer[guards[g].frame].pin_count # 0
         /\ guards[g].page # INVALID_PAGE_ID
         /\ guards[g].page \in DOMAIN pool.page_table
         /\ pool.page_table[guards[g].page] = guards[g].frame
         /\ guards[g].page \in DOMAIN latest
  <1>1. Holds(guards, g)
    BY DEF Live, Holds
  <1>2. /\ guards[g].frame \in Frames /\ guards[g].page \in PageIds
        /\ pool.buffer[guards[g].frame].page_id = guards[g].page
        /\ pool.buffer[guards[g].frame].pin_count # 0
        /\ guards[g].page # INVALID_PAGE_ID
    BY <1>1, HeldIsPinned DEF PoolInv
  <1>3. guards[g].page \in DOMAIN pool.page_table
        /\ pool.page_table[guards[g].page] = guards[g].frame
    BY <1>2 DEF PoolInv, PoolOK, FramesOK
  <1>4. guards[g].page \in DOMAIN latest
    BY <1>3 DEF PoolInv, StoreOK, UsedOK
  <1> QED
    BY <1>1, <1>2, <1>3, <1>4

LEMMA WriteInv ==
  ASSUME PoolInv, NEW g \in Guards, NEW data \in Contents \ {Zeros, Initialised},
         Write(g, data)
  PROVE  PoolInv'
  <1> DEFINE f == guards[g].frame
             b == [pool.buffer[f] EXCEPT !.data = data, !.is_dirty = TRUE]
  <1>1. /\ Live(g) /\ pool' = WithFrame(pool, f, b)
        /\ latest' = [p \in DOMAIN latest \cup {guards[g].page} |->
                        IF p = guards[g].page THEN data ELSE latest[p]]
        /\ guards' = guards
    BY DEF Write, Know, WithFrame
  <1>2. PoolOK(pool) /\ GuardsOK(pool, guards) /\ StoreOK(pool, latest)
    BY DEF PoolInv
  <1>3. /\ f \in Frames /\ pool.buffer[f].page_id = guards[g].page
        /\ pool.buffer[f].pin_count # 0 /\ pool.buffer[f].page_id # INVALID_PAGE_ID
    BY <1>1, LiveGuard
  <1>4. data \in Nat \X Nat
    BY PoolAssumption DEF Contents
  <1>5. /\ PoolOK(pool') /\ StoreOK(pool', latest')
        /\ \A h \in Frames : /\ pool'.buffer[h].page_id = pool.buffer[h].page_id
                             /\ pool'.buffer[h].pin_count = pool.buffer[h].pin_count
    <2>1. pool.buffer[f] \in FrameType /\ data \in PageData
      BY <1>2, <1>3, <1>4, BufferFrame DEF PageData
    <2>2. /\ b \in FrameType /\ b.data = data /\ b.is_dirty = TRUE
          /\ b.page_id = pool.buffer[f].page_id
          /\ b.pin_count = pool.buffer[f].pin_count
      BY <2>1, FrameWritten
    <2>3. guards[g].page \in DOMAIN latest
      BY <1>1, LiveGuard
    <2>4. /\ DOMAIN latest' = DOMAIN latest
          /\ latest'[guards[g].page] = data
          /\ \A p \in DOMAIN latest : p # guards[g].page => latest'[p] = latest[p]
      BY <1>1, <2>3
    <2>5. b.is_dirty
      BY <2>2
    <2>6. /\ DOMAIN latest' = DOMAIN latest
          /\ latest'[pool.buffer[f].page_id] = data
          /\ \A p \in DOMAIN latest : p # pool.buffer[f].page_id => latest'[p] = latest[p]
      BY <1>3, <2>4
    <2> HIDE DEF b, f
    <2>7. /\ PoolOK(WithFrame(pool, f, b)) /\ StoreOK(WithFrame(pool, f, b), latest')
          /\ \A h \in Frames :
               /\ WithFrame(pool, f, b).buffer[h].page_id = pool.buffer[h].page_id
               /\ WithFrame(pool, f, b).buffer[h].pin_count = pool.buffer[h].pin_count
      BY <1>2, <1>3, <1>4, <2>2, <2>5, <2>6, WriteStores
    <2> QED
      BY <1>1, <2>7
  <1> HIDE DEF f, b
  <1>6. GuardsOK(pool', guards)
    BY <1>2, <1>5, SameHolders
  <1> QED
    BY <1>1, <1>5, <1>6 DEF PoolInv

LEMMA CopyInv ==
  ASSUME PoolInv, NEW g \in Guards, NEW h \in Guards, Copy(g, h)
  PROVE  PoolInv'
  <1> DEFINE f == guards[g].frame
             page == guards[g].page
             b == [pool.buffer[f] EXCEPT !.pin_count = @ + 1]
  <1>1. /\ Live(g) /\ guards[h] = NoGuard /\ pool' = WithFrame(pool, f, b)
        /\ guards' = [guards EXCEPT ![h] = guards[g]] /\ latest' = latest
    BY DEF Copy, Idle, WithFrame
  <1>2. PoolOK(pool) /\ GuardsOK(pool, guards) /\ StoreOK(pool, latest)
    BY DEF PoolInv
  <1>3. /\ f \in Frames /\ page \in PageIds /\ pool.buffer[f].page_id = page
        /\ pool.buffer[f].pin_count # 0 /\ pool.buffer[f].page_id # INVALID_PAGE_ID
    BY <1>1, LiveGuard
  <1>4. pool.buffer \in [Frames -> FrameType] /\ pool.buffer[f] \in FrameType
    BY <1>2, <1>3 DEF PoolOK, PoolShape
  <1>5. /\ b \in FrameType
        /\ b.page_id = page /\ b.pin_count = pool.buffer[f].pin_count + 1
        /\ b.data = pool.buffer[f].data /\ b.is_dirty = pool.buffer[f].is_dirty
    BY <1>3, <1>4 DEF FrameType
  <1>6. b.pin_count # 0
    BY <1>4, <1>5 DEF FrameType
  <1>7. guards[g] = NewGuard(f, page)
    <2>1. guards[g] \in [frame : {f}, page : {page}, stale : {FALSE}]
      BY <1>1 DEF Live, GuardsOK, PoolInv
    <2> HIDE DEF f, page
    <2> QED
      BY <2>1 DEF NewGuard
  <1> HIDE DEF b, page, f
  <1>8. /\ PoolOK(pool') /\ pool'.buffer = [pool.buffer EXCEPT ![f] = b]
        /\ pool'.page_table = pool.page_table /\ pool'.disk = pool.disk
    BY <1>1, <1>2, <1>3, <1>5, <1>6, PinnedFrameOK
  <1>9. pool'.buffer[f] = b /\ \A e \in Frames : e # f => pool'.buffer[e] = pool.buffer[e]
    BY <1>3, <1>4, <1>8
  <1>10. \A e \in Frames : /\ pool'.buffer[e].data = pool.buffer[e].data
                           /\ pool.buffer[e].is_dirty => pool'.buffer[e].is_dirty
                           /\ pool'.buffer[e].page_id = pool.buffer[e].page_id
    BY <1>3, <1>5, <1>9
  <1>11. StoreOK(pool', latest')
    BY <1>1, <1>2, <1>8, <1>10, PinsAreInvisible
  <1>12. /\ pool'.buffer[f].page_id = page
         /\ pool'.buffer[f].pin_count = pool.buffer[f].pin_count + 1
         /\ \A e \in Frames : e # f => pool'.buffer[e].pin_count = pool.buffer[e].pin_count
         /\ \A e \in Frames : pool.buffer[e].pin_count # 0 =>
              pool'.buffer[e].page_id = pool.buffer[e].page_id
    BY <1>5, <1>9, <1>10
  <1>13. GuardsOK(pool', [guards EXCEPT ![h] = NewGuard(f, page)])
    <2>1. guards[h] = NoGuard
      BY <1>1
    <2> QED
      BY <1>2, <1>3, <1>12, <2>1, ObtainGuards
  <1> QED
    BY <1>1, <1>7, <1>8, <1>11, <1>13 DEF PoolInv

LEMMA DropInv ==
  ASSUME PoolInv, NEW g \in Guards, Drop(g)
  PROVE  PoolInv'
  <1> DEFINE f == guards[g].frame
             page == pool.buffer[f].page_id
             is_dirty == pool.buffer[f].is_dirty
  <1>1. /\ guards[g] # NoGuard /\ GoesFirst(g)
        /\ pool' = UnpinFrame(pool, page, is_dirty)
        /\ guards' = [guards EXCEPT ![g] = NoGuard] /\ latest' = latest
    BY DEF Drop, Idle, PageId
  <1>2. PoolOK(pool) /\ GuardsOK(pool, guards) /\ StoreOK(pool, latest)
    BY DEF PoolInv
  <1>3. f \in Frames
    BY <1>1, <1>2 DEF GuardsOK
  <1>4. is_dirty \in BOOLEAN
    <2>1. pool.buffer[f] \in FrameType
      BY <1>2, <1>3 DEF PoolOK, PoolShape
    <2> QED
      BY <2>1 DEF FrameType
  <1>5. CASE ~guards[g].stale
    <2>1. Holds(guards, g) /\ page \in DOMAIN pool.page_table
          /\ pool.page_table[page] = f /\ pool.buffer[f].pin_count # 0
      BY <1>3, <1>5, LiveGuard DEF Live
    <2>2. /\ PoolOK(pool')
          /\ \A h \in Frames : h # f => pool'.buffer[h] = pool.buffer[h]
          /\ pool'.buffer[f].page_id = page /\ pool'.buffer[f].data = pool.buffer[f].data
          /\ pool'.buffer[f].pin_count = pool.buffer[f].pin_count - 1
          /\ pool'.buffer[f].is_dirty = (is_dirty \/ is_dirty)
          /\ pool'.page_table = pool.page_table /\ pool'.disk = pool.disk
      <3> DEFINE r == UnpinFrame(pool, page, is_dirty)
                 e == pool.page_table[page]
      <3> HIDE DEF page, is_dirty
      <3>1. pool.buffer[pool.page_table[page]].pin_count # 0
        BY <2>1
      <3>2. /\ PoolOK(r)
            /\ \A h \in Frames : h # e => r.buffer[h] = pool.buffer[h]
            /\ r.buffer[e].page_id = page /\ r.buffer[e].data = pool.buffer[e].data
            /\ r.buffer[e].pin_count = pool.buffer[e].pin_count - 1
            /\ r.buffer[e].is_dirty = (pool.buffer[e].is_dirty \/ is_dirty)
            /\ r.page_table = pool.page_table /\ r.disk = pool.disk
        BY <1>2, <1>4, <2>1, <3>1, UnpinFrameOK
      <3>3. pool' = r /\ e = f
        BY <1>1, <2>1
      <3> HIDE DEF r, e
      <3>4. is_dirty = pool.buffer[f].is_dirty
        BY DEF is_dirty
      <3> HIDE DEF f
      <3> QED
        BY <3>2, <3>3, <3>4
    <2>3. \A h \in Frames : /\ pool'.buffer[h].data = pool.buffer[h].data
                            /\ pool.buffer[h].is_dirty => pool'.buffer[h].is_dirty
                            /\ pool'.buffer[h].page_id = pool.buffer[h].page_id
      BY <2>2
    <2>4. StoreOK(pool', latest')
      BY <1>1, <1>2, <2>2, <2>3, PinsAreInvisible
    <2>5. \A h \in Frames : h # f => pool'.buffer[h].pin_count = pool.buffer[h].pin_count
      BY <2>2
    <2>6. GuardsOK(pool', [guards EXCEPT ![g] = NoGuard])
      <3>1. pool'.buffer[f].pin_count = pool.buffer[f].pin_count - 1
        BY <2>2
      <3>2. \A h \in Frames : pool'.buffer[h].page_id = pool.buffer[h].page_id
        BY <2>3
      <3> QED
        BY <1>2, <2>1, <2>5, <3>1, <3>2, ReleaseGuards
    <2> QED
      BY <1>1, <2>2, <2>4, <2>6 DEF PoolInv
  <1>6. CASE guards[g].stale
    <2>1. Holders(guards, f) = {} /\ ~Holds(guards, g)
      BY <1>1, <1>6 DEF GoesFirst, Holders, Holds
    <2>2. pool.buffer[f].pin_count = 0
      BY <1>2, <1>3, <2>1, HoldersCounted DEF GuardsOK
    <2>3. pool' = pool
      <3>1. CASE page = INVALID_PAGE_ID
        <4>1. page \notin DOMAIN pool.page_table
          BY <1>2, <3>1, PageIdsAreNat DEF PoolOK, FramesOK, IsMap
        <4> QED
          BY <1>1, <4>1 DEF UnpinFrame, Cached
      <3>2. CASE page # INVALID_PAGE_ID
        <4>1. pool.page_table[page] = f
          BY <1>2, <1>3, <3>2 DEF PoolOK, FramesOK
        <4>2. pool.buffer[pool.page_table[page]].pin_count <= 0
          BY <2>2, <4>1
        <4> QED
          BY <1>1, <4>2 DEF UnpinFrame
      <3> QED
        BY <3>1, <3>2
    <2>4. GuardsOK(pool', [guards EXCEPT ![g] = NoGuard])
      BY <1>2, <2>1, <2>3, SameHolders
    <2> QED
      BY <1>1, <1>2, <2>3, <2>4 DEF PoolInv
  <1> QED
    BY <1>2, <1>5, <1>6 DEF GuardsOK

LEMMA NothingHeld ==
  ASSUME NEW s, NEW gs, GuardsOK(s, gs), \A g \in Guards : gs[g] = NoGuard, NEW r,
         \A f \in Frames : r.buffer[f] = EmptyFrame
  PROVE  GuardsOK(r, gs)
  <1>1. \A g \in Guards : ~Holds(gs, g)
    BY NoGuardOK DEF Holds
  <1>2. \A f \in Frames : Holders(gs, f) = {}
    BY <1>1 DEF Holders
  <1>3. EmptyFrame.pin_count = 0
    BY DEF EmptyFrame
  <1>4. \A f \in Frames : r.buffer[f].pin_count = Cardinality(Holders(gs, f))
    BY <1>2, <1>3, FS_EmptySet
  <1> QED
    BY <1>1, <1>4 DEF GuardsOK

LEMMA DeleteInv ==
  ASSUME PoolInv, NEW g \in Guards, Delete(g)
  PROVE  PoolInv'
  <1> DEFINE f == guards[g].frame
             page == guards[g].page
             r == DeletePage(pool, page)
             known == [p \in DOMAIN latest \ {page} |-> latest[p]]
             gs == [h \in Guards |->
                      CASE h = g -> NoGuard
                        [] h # g /\ guards[h].page = page ->
                             [guards[h] EXCEPT !.stale = TRUE]
                        [] OTHER -> guards[h]]
  <1>1. Live(g) /\ MayDelete(page) /\ pool' = r /\ guards' = gs /\ latest' = known
    BY DEF Delete
  <1>2. PoolOK(pool) /\ GuardsOK(pool, guards) /\ StoreOK(pool, latest)
    BY DEF PoolInv
  <1>3. /\ Holds(guards, g) /\ page \in DOMAIN pool.page_table
        /\ pool.page_table[page] = f
    BY <1>1, LiveGuard
  <1>4. "delete" \notin Habits => WholePage(pool.disk, page)
    BY <1>1 DEF MayDelete
  <1>5. StoreOK(r, known)
    BY <1>2, <1>3, <1>4, DeleteStores
  <1>6. PoolOK(r) /\ r.buffer = [pool.buffer EXCEPT ![pool.page_table[page]] = EmptyFrame]
    BY <1>2, <1>3, DeletePageOK
  <1> HIDE DEF r, known
  <1>7. r.buffer = [pool.buffer EXCEPT ![f] = EmptyFrame]
    BY <1>3, <1>6
  <1>8. GuardsOK(r, gs)
    BY <1>2, <1>3, <1>7, DeleteGuards
  <1> HIDE DEF gs
  <1> QED
    BY <1>1, <1>5, <1>6, <1>8 DEF PoolInv

LEMMA ReopenInv ==
  ASSUME Restartable, PoolInv, Reopen
  PROVE  PoolInv'
  <1> DEFINE r == EmptyPool(Opened(FlushAllFrames(pool)))
  <1>1. /\ \A g \in Guards : guards[g] = NoGuard
        /\ pool' = r /\ guards' = guards /\ latest' = latest
        /\ "delete" \notin Habits /\ "untouched" \notin Habits
    BY DEF Reopen, NoGuards, Idle, Restartable
  <1>2. PoolOK(pool) /\ GuardsOK(pool, guards) /\ StoreOK(pool, latest)
    BY DEF PoolInv
  <1>3. PoolOK(r) /\ StoreOK(r, latest) /\ \A f \in Frames : r.buffer[f] = EmptyFrame
    BY <1>1, <1>2, ReopenStores
  <1> HIDE DEF r
  <1>4. GuardsOK(r, guards)
    BY <1>1, <1>2, <1>3, NothingHeld
  <1> QED
    BY <1>1, <1>3, <1>4 DEF PoolInv

LEMMA CleanInv ==
  ASSUME PoolInv, Clean
  PROVE  PoolInv'
  <1> DEFINE truncated == [NewDisk EXCEPT !.size = pool.disk.size,
                                          !.free_head = pool.disk.free_head,
                                          !.failed = pool.disk.failed]
             old == [pool EXCEPT !.disk = truncated]
             left == FlushAllFrames(old)
             disk == [NewDisk EXCEPT !.pages = left.pages, !.length = left.length,
                                     !.info = left.info]
             r == EmptyPool(disk)
  <1>1. /\ \A g \in Guards : guards[g] = NoGuard
        /\ pool' = r /\ guards' = guards /\ latest' = [p \in {} |-> Zeros]
    BY DEF Clean, NoGuards, Idle
  <1>2. PoolOK(pool) /\ GuardsOK(pool, guards)
    BY DEF PoolInv
  <1>3. truncated \in DiskType
    <2>1. pool.disk \in DiskType
      BY <1>2 DEF PoolOK, PoolShape
    <2> QED
      BY <2>1, NewDiskOK DEF DiskType
  <1> HIDE DEF truncated
  <1>4. PoolOK(old)
    BY <1>2, <1>3, SetDiskOK
  <1> HIDE DEF old
  <1>5. left \in DiskType
    BY <1>4, FlushAllFramesOK
  <1> HIDE DEF left
  <1>6. disk \in DiskType /\ disk.failed = NewDisk.failed /\ disk.free_head = NewDisk.free_head
    BY <1>5, NewDiskOK DEF DiskType
  <1>7. ~disk.failed /\ disk.free_head = INVALID_PAGE_ID
    BY <1>6 DEF NewDisk
  <1> HIDE DEF disk
  <1>8. PoolOK(r) /\ StoreOK(r, [p \in {} |-> Zeros]) /\ \A f \in Frames : r.buffer[f] = EmptyFrame
    BY <1>6, <1>7, NothingStored, EmptyPoolOK
  <1> HIDE DEF r
  <1>9. GuardsOK(r, guards)
    BY <1>1, <1>2, <1>8, NothingHeld
  <1> QED
    BY <1>1, <1>8, <1>9 DEF PoolInv

LEMMA NextInv ==
  ASSUME Restartable, PoolInv, [Next]_vars
  PROVE  PoolInv'
  <1>1. CASE UNCHANGED vars
    BY <1>1 DEF vars, PoolInv
  <1>2. ASSUME NEW g \in Guards, NEW data \in {Zeros, Initialised}, NewPage(g, data)
        PROVE  PoolInv'
    BY <1>2, NewPageInv
  <1>3. ASSUME NEW g \in Guards, NEW page \in PageIds, Fetch(g, page)
        PROVE  PoolInv'
    BY <1>3, FetchInv
  <1>4. ASSUME NEW g \in Guards, NEW data \in Contents \ {Zeros, Initialised}, Write(g, data)
        PROVE  PoolInv'
    BY <1>4, WriteInv
  <1>5. ASSUME NEW g \in Guards, NEW h \in Guards, Copy(g, h)
        PROVE  PoolInv'
    BY <1>5, CopyInv
  <1>6. ASSUME NEW g \in Guards, Drop(g)
        PROVE  PoolInv'
    BY <1>6, DropInv
  <1>7. ASSUME NEW g \in Guards, Delete(g)
        PROVE  PoolInv'
    BY <1>7, DeleteInv
  <1>8. CASE Reopen
    BY <1>8, ReopenInv
  <1>9. CASE Clean
    BY <1>9, CleanInv
  <1> QED
    BY <1>1, <1>2, <1>3, <1>4, <1>5, <1>6, <1>7, <1>8, <1>9 DEF Next

LEMMA PoolInvariant ==
  ASSUME Restartable
  PROVE  Spec => []PoolInv
  <1>1. Init => PoolInv
    BY InitInv
  <1>2. PoolInv /\ [Next]_vars => PoolInv'
    BY NextInv
  <1> QED
    BY <1>1, <1>2, PTL DEF Spec

-----------------------------------------------------------------------------
(* What the invariant says of the properties the runs check.               *)
LEMMA InvFrames == PoolInv => FramesAccountedFor
  <1> SUFFICES ASSUME PoolInv, NEW f \in Frames
               PROVE  LET frame == pool.buffer[f]
                          listed == {i \in DOMAIN pool.free_list : pool.free_list[i] = f}
                          holding == {p \in DOMAIN pool.page_table : pool.page_table[p] = f}
                      IN  \/ Cardinality(listed) = 1 /\ holding = {} /\ frame = EmptyFrame
                          \/ listed = {} /\ holding = {frame.page_id}
    BY DEF FramesAccountedFor
  <1> DEFINE listed == {i \in DOMAIN pool.free_list : pool.free_list[i] = f}
             holding == {p \in DOMAIN pool.page_table : pool.page_table[p] = f}
  <1>1. PoolOK(pool)
    BY DEF PoolInv
  <1>2. DOMAIN pool.free_list = 1 .. Len(pool.free_list)
    BY <1>1 DEF PoolOK, FreeListOK
  <1>3. CASE pool.buffer[f].page_id = INVALID_PAGE_ID
    <2>1. holding = {}
      <3>1. \A p \in DOMAIN pool.page_table : pool.page_table[p] = f => FALSE
        BY <1>1, <1>3, PageIdsAreNat DEF PoolOK, FramesOK, IsMap
      <3> QED
        BY <3>1
    <2>2. pool.buffer[f] = EmptyFrame
      BY <1>1, <1>3 DEF PoolOK, FramesOK
    <2>3. PICK i \in 1 .. Len(pool.free_list) : pool.free_list[i] = f
      BY <1>1, <1>3 DEF PoolOK, FreeListOK
    <2>4. listed = {i}
      BY <1>1, <1>2, <2>3 DEF PoolOK, FreeListOK
    <2>5. Cardinality(listed) = 1
      BY <2>4, FS_Singleton
    <2> QED
      BY <2>1, <2>2, <2>5
  <1>4. CASE pool.buffer[f].page_id # INVALID_PAGE_ID
    <2>1. listed = {}
      BY <1>1, <1>2, <1>4 DEF PoolOK, FreeListOK
    <2>2. holding = {pool.buffer[f].page_id}
      BY <1>1, <1>4 DEF PoolOK, FramesOK
    <2> QED
      BY <2>1, <2>2
  <1> QED
    BY <1>3, <1>4

LEMMA LiveAreHolders ==
  ASSUME NEW f \in Frames
  PROVE  {g \in Guards : Live(g) /\ guards[g].frame = f} = Holders(guards, f)
  BY DEF Live, Holders, Holds

LEMMA InvPins == PoolInv => PinsExact
  <1> SUFFICES ASSUME PoolInv, NEW f \in Frames
               PROVE  LET holders == {g \in Guards : Live(g) /\ guards[g].frame = f}
                          entries == {d \in DOMAIN pool.lru.evictable :
                                        pool.lru.evictable[d] = f}
                          frame == pool.buffer[f]
                      IN  /\ frame.pin_count = Cardinality(holders)
                          /\ entries = IF frame.page_id # INVALID_PAGE_ID /\ holders = {}
                                       THEN {pool.lru.hint[f]} ELSE {}
    BY DEF PinsExact
  <1> DEFINE holders == {g \in Guards : Live(g) /\ guards[g].frame = f}
             entries == {d \in DOMAIN pool.lru.evictable : pool.lru.evictable[d] = f}
  <1>1. holders = Holders(guards, f)
    BY LiveAreHolders
  <1> HIDE DEF holders
  <1>2. PoolOK(pool) /\ GuardsOK(pool, guards)
    BY DEF PoolInv
  <1>3. pool.buffer[f].pin_count = Cardinality(holders)
    BY <1>1, <1>2 DEF GuardsOK
  <1>4. holders = {} <=> pool.buffer[f].pin_count = 0
    BY <1>1, <1>3, HoldersCounted
  <1>5. pool.lru.hint[f] # NoHint =>
          pool.lru.hint[f] \in DOMAIN pool.lru.evictable
          /\ pool.lru.evictable[pool.lru.hint[f]] = f
    BY <1>2 DEF PoolOK, OffersOK, LruOK, HintsOK
  <1>6. \A d \in entries : d = pool.lru.hint[f] /\ d \in Nat \X Nat
    BY <1>2 DEF PoolOK, OffersOK, LruOK, HintsOK, IsMap
  <1>7. ASSUME Offered(pool, f)
        PROVE  /\ pool.buffer[f].page_id # INVALID_PAGE_ID /\ holders = {}
               /\ entries = {pool.lru.hint[f]}
    <2>1. GetKDistance(pool.lru, pool.buffer[f].page_id) \in Nat \X Nat
      <3>1. pool.buffer[f].page_id \in DOMAIN pool.lru.history
        BY <1>2, <1>7, UsedFrame DEF Offered
      <3> QED
        BY <1>2, <3>1, DistanceOfPage DEF PoolOK, OffersOK
    <2>2. pool.lru.hint[f] = GetKDistance(pool.lru, pool.buffer[f].page_id)
      BY <1>2, <1>7 DEF PoolOK, OffersOK
    <2>3. pool.lru.hint[f] # NoHint
      BY <2>1, <2>2, HintIsNoPair
    <2>4. entries = {pool.lru.hint[f]}
      BY <1>5, <1>6, <2>3
    <2> QED
      BY <1>4, <1>7, <2>4 DEF Offered
  <1>8. ASSUME ~Offered(pool, f)
        PROVE  /\ pool.buffer[f].page_id = INVALID_PAGE_ID \/ holders # {}
               /\ entries = {}
    <2>1. pool.lru.hint[f] = NoHint
      BY <1>2, <1>8 DEF PoolOK, OffersOK
    <2>2. entries = {}
      BY <1>6, <2>1, HintIsNoPair
    <2> QED
      BY <1>4, <1>8, <2>2 DEF Offered
  <1>9. entries = IF pool.buffer[f].page_id # INVALID_PAGE_ID /\ holders = {}
                  THEN {pool.lru.hint[f]} ELSE {}
    BY <1>7, <1>8
  <1> QED
    BY <1>3, <1>9 DEF holders

LEMMA InvStayPut == PoolInv => GuardsStayPut
  BY LiveGuard DEF GuardsStayPut, PageId

LEMMA InvPagesInFile == PoolInv => PagesInFile
  BY DEF PoolInv, StoreOK, UsedOK, PagesInFile

LEMMA InvReads ==
  ASSUME "untouched" \notin Habits
  PROVE  PoolInv => ReadsLatest
  <1> SUFFICES ASSUME PoolInv, NEW p \in DOMAIN latest
               PROVE  Readable(p) = latest[p]
    BY DEF ReadsLatest
  <1>1. ~pool.disk.failed /\ Kept(pool, p, latest[p])
    BY DEF PoolInv, StoreOK, KeptOK
  <1>2. CASE Cached(pool, p)
    BY <1>1, <1>2 DEF Kept, Readable
  <1>3. CASE ~Cached(pool, p)
    <2>1. WholePage(pool.disk, p) /\ pool.disk.pages[p] = latest[p]
      BY <1>1, <1>3 DEF Kept, InFile
    <2>2. p \in Int /\ pool.disk.length \in Int
      BY PageIdsAreNat DEF PoolInv, StoreOK, UsedOK, PoolOK, PoolShape, DiskType
    <2>3. ~(2 * p >= pool.disk.length)
      BY <2>1, <2>2 DEF WholePage
    <2>4. DataRead(pool.disk, p) = pool.disk.pages[p]
      BY <1>1, <2>1, <2>3 DEF DataRead
    <2> QED
      BY <1>3, <2>1, <2>4 DEF Readable
  <1> QED
    BY <1>2, <1>3

LEMMA InvTypes ==
  ASSUME "untouched" \notin Habits
  PROVE  PoolInv => PoolTypeOK
  <1> SUFFICES ASSUME PoolInv PROVE PoolTypeOK
    OBVIOUS
  <1>1. PoolOK(pool) /\ GuardsOK(pool, guards) /\ StoreOK(pool, latest)
    BY DEF PoolInv
  <1>2. pool.buffer \in [Frames -> FrameType] /\ pool.disk \in DiskType
    BY <1>1 DEF PoolOK, PoolShape
  <1>3. Cardinality(Guards) \in Nat
    BY PoolAssumption, FS_CardinalityType
  <1>4. ASSUME NEW f \in Frames
        PROVE  pool.buffer[f] \in [page_id : PageIds \cup {INVALID_PAGE_ID},
                                   is_dirty : BOOLEAN,
                                   pin_count : 0 .. Cardinality(Guards),
                                   data : Nat \X Nat]
    <2>1. pool.buffer[f] \in FrameType
      BY <1>2
    <2>2. pool.buffer[f].pin_count \in 0 .. Cardinality(Guards)
      <3>1. Holders(guards, f) \subseteq Guards
        BY DEF Holders
      <3>2. Cardinality(Holders(guards, f)) <= Cardinality(Guards)
        BY <3>1, PoolAssumption, FS_Subset
      <3>3. Cardinality(Holders(guards, f)) \in Nat
        BY HoldersCounted
      <3> QED
        BY <1>1, <1>3, <3>2, <3>3 DEF GuardsOK
    <2>3. pool.buffer[f].data \in Nat \X Nat
      <3>1. CASE pool.buffer[f].page_id = INVALID_PAGE_ID
        <4>1. pool.buffer[f] = EmptyFrame
          BY <1>1, <3>1 DEF PoolOK, FramesOK
        <4> QED
          BY <4>1 DEF EmptyFrame, Zeros
      <3>2. CASE pool.buffer[f].page_id # INVALID_PAGE_ID
        <4> DEFINE p == pool.buffer[f].page_id
        <4>1. p \in DOMAIN pool.page_table /\ pool.page_table[p] = f
          BY <1>1, <3>2 DEF PoolOK, FramesOK
        <4>2. p \in DOMAIN latest
          BY <1>1, <4>1 DEF StoreOK, UsedOK
        <4>3. latest[p] \in Nat \X Nat /\ Kept(pool, p, latest[p])
          BY <1>1, <4>2 DEF StoreOK, KeptOK
        <4> HIDE DEF p
        <4> QED
          BY <4>1, <4>3 DEF Kept, Cached
      <3> QED
        BY <3>1, <3>2
    <2> QED
      BY <2>1, <2>2, <2>3 DEF FrameType
  <1>5. pool.buffer \in [Frames -> [page_id : PageIds \cup {INVALID_PAGE_ID},
                                    is_dirty : BOOLEAN,
                                    pin_count : 0 .. Cardinality(Guards),
                                    data : Nat \X Nat]]
    BY <1>2, <1>4
  <1>6. /\ DOMAIN pool.page_table \subseteq PageIds
        /\ \A p \in DOMAIN pool.page_table : pool.page_table[p] \in Frames
    BY <1>1 DEF PoolOK, FramesOK, IsMap
  <1>7. pool.disk.size \in 0 .. MaxPages /\ pool.disk.length \in 0 .. 2 * MaxPages
    BY <1>2 DEF DiskType
  <1>8. ASSUME NEW p \in DOMAIN pool.lru.history, NEW i \in 1 .. K
        PROVE  pool.lru.history[p][i] \in 0 .. pool.lru.time
    <2>1. pool.lru.history[p] \in [1 .. K -> Nat] /\ pool.lru.time \in Nat
          /\ pool.lru.history[p][i] <= pool.lru.time
      BY <1>1 DEF PoolOK, OffersOK, LruOK, HistoryOK, IsMap
    <2> DEFINE t == pool.lru.history[p][i]
    <2>2. t \in Nat /\ t <= pool.lru.time
      BY <2>1
    <2> HIDE DEF t
    <2>3. t \in 0 .. pool.lru.time
      BY <2>1, <2>2
    <2> QED
      BY <2>3 DEF t
  <1>9. guards \in [Guards -> [frame : Frames \cup {-1},
                    page : PageIds \cup {INVALID_PAGE_ID}, stale : BOOLEAN]]
    BY <1>1 DEF GuardsOK
  <1> QED
    BY <1>5, <1>6, <1>7, <1>8, <1>9 DEF PoolTypeOK

(* Every step of the clients is a step of the page store, or changes       *)
(* nothing it can see.                                                     *)
LEMMA NextStores ==
  ASSUME PoolInv, [Next]_vars
  PROVE  [Store!Next]_latest
  <1>1. CASE UNCHANGED vars
    BY <1>1 DEF vars
  <1>2. ASSUME NEW g \in Guards, NEW data \in {Zeros, Initialised}, NewPage(g, data)
        PROVE  Store!Next
    <2>1. PICK page \in PageIds \ DOMAIN latest :
            latest' = [p \in DOMAIN latest \cup {page} |->
                         IF p = page THEN data ELSE latest[p]]
      BY <1>2, NewPageInv
    <2>2. Store!New(page, data)
      BY <2>1 DEF Store!New
    <2> QED
      BY <2>2 DEF Store!Next
  <1>3. ASSUME NEW g \in Guards, NEW page \in PageIds, Fetch(g, page)
        PROVE  latest' = latest
    BY <1>3 DEF Fetch
  <1>4. ASSUME NEW g \in Guards, NEW data \in Contents \ {Zeros, Initialised}, Write(g, data)
        PROVE  Store!Next
    <2> DEFINE page == guards[g].page
    <2>1. page \in PageIds /\ page \in DOMAIN latest
      BY <1>4, LiveGuard DEF Write
    <2>2. latest' = [p \in DOMAIN latest \cup {page} |->
                       IF p = page THEN data ELSE latest[p]]
      BY <1>4 DEF Write, Know
    <2> HIDE DEF page
    <2>3. latest' = [latest EXCEPT ![page] = data]
      BY <2>1, <2>2
    <2>4. Store!Write(page, data)
      BY <2>1, <2>3 DEF Store!Write
    <2> QED
      BY <2>1, <2>4 DEF Store!Next
  <1>5. ASSUME NEW g \in Guards, NEW h \in Guards, Copy(g, h)
        PROVE  latest' = latest
    BY <1>5 DEF Copy
  <1>6. ASSUME NEW g \in Guards, Drop(g)
        PROVE  latest' = latest
    BY <1>6 DEF Drop
  <1>7. ASSUME NEW g \in Guards, Delete(g)
        PROVE  Store!Next
    <2> DEFINE page == guards[g].page
    <2>1. page \in PageIds /\ page \in DOMAIN latest
      BY <1>7, LiveGuard DEF Delete
    <2>2. latest' = [p \in DOMAIN latest \ {page} |-> latest[p]]
      BY <1>7 DEF Delete
    <2> HIDE DEF page
    <2>3. Store!Delete(page)
      BY <2>1, <2>2 DEF Store!Delete
    <2> QED
      BY <2>1, <2>3 DEF Store!Next
  <1>8. CASE Reopen
    BY <1>8 DEF Reopen
  <1>9. CASE Clean
    <2>1. Store!Clear
      BY <1>9 DEF Clean, Store!Clear
    <2> QED
      BY <2>1 DEF Store!Next
  <1> QED
    BY <1>1, <1>2, <1>3, <1>4, <1>5, <1>6, <1>7, <1>8, <1>9 DEF Next

-----------------------------------------------------------------------------
(* Every frame is free, or in the page table under the one page it holds:  *)
(* no order of fetches, evictions and deletions of pinned pages loses a    *)
(* frame or shows a page in two.                                           *)
THEOREM FramesStayAccountedFor ==
  ASSUME Restartable
  PROVE  Spec => []FramesAccountedFor
  <1>1. Spec => []PoolInv
    BY PoolInvariant
  <1> QED
    BY <1>1, InvFrames, PTL

(* Pin counts are the number of live guards, and the replacer offers       *)
(* exactly the frames nobody has pinned, under the hint it remembers.      *)
THEOREM PinsStayExact ==
  ASSUME Restartable
  PROVE  Spec => []PinsExact
  <1>1. Spec => []PoolInv
    BY PoolInvariant
  <1> QED
    BY <1>1, InvPins, PTL

(* Nobody's pointer into a frame is redirected to another page.            *)
THEOREM GuardsAreNotRedirected ==
  ASSUME Restartable
  PROVE  Spec => []GuardsStayPut
  <1>1. Spec => []PoolInv
    BY PoolInvariant
  <1> QED
    BY <1>1, InvStayPut, PTL

(* The pages clients have are below size_, as DiskManager asserts.         *)
THEOREM PagesStayInFile ==
  ASSUME Restartable
  PROVE  Spec => []PagesInFile
  <1>1. Spec => []PoolInv
    BY PoolInvariant
  <1> QED
    BY <1>1, InvPagesInFile, PTL

(* Where every page that is taken is written to, the types hold: no frame  *)
(* shows the link of the free list that the file has in a deleted page.    *)
THEOREM PoolTypesHold ==
  ASSUME Restartable, "untouched" \notin Habits
  PROVE  Spec => []PoolTypeOK
  <1>1. Spec => []PoolInv
    BY PoolInvariant
  <1>2. PoolInv => PoolTypeOK
    BY InvTypes
  <1> QED
    BY <1>1, <1>2, PTL

(* Where every page that is taken is written to, it reads as what was last *)
(* written, through evictions, deletions, exit, restart and clean.         *)
THEOREM PagesReadLatest ==
  ASSUME Restartable, "untouched" \notin Habits
  PROVE  Spec => []ReadsLatest
  <1>1. Spec => []PoolInv
    BY PoolInvariant
  <1>2. PoolInv => ReadsLatest
    BY InvReads
  <1> QED
    BY <1>1, <1>2, PTL

(* The pool, the replacer and the file implement a store of pages: a page  *)
(* that is handed out belongs to nobody else.                              *)
THEOREM PoolImplementsPageStore ==
  ASSUME Restartable
  PROVE  Spec => ImplementsPageStore
  <1>1. Spec => []PoolInv
    BY PoolInvariant
  <1>2. Init => Store!Init
    BY DEF Init, Store!Init
  <1>3. PoolInv /\ [Next]_vars => [Store!Next]_latest
    BY NextStores
  <1> QED
    BY <1>1, <1>2, <1>3, PTL DEF Spec, ImplementsPageStore, Store!Spec
=============================================================================
