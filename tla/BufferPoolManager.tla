-------------------------- MODULE BufferPoolManager --------------------------
(***************************************************************************)
(* The buffer pool of buffer_pool_manager.h between its clients, which     *)
(* hold frames through guards, and the file.  NewFrameGuarded and          *)
(* FetchFrameBasic pin a frame, dropping a guard unpins it, an unpinned    *)
(* frame may be evicted when another page needs it, and DeletePage frees a *)
(* frame whoever has it pinned.                                            *)
(***************************************************************************)
EXTENDS LRUKReplacer, DiskManager, FiniteSets
Seqs == INSTANCE SequencesExt

CONSTANTS
  Guards,   \* the guards clients have at a time
  Habits    \* what clients do, of AllHabits

AllHabits == {"delete", "delete_saved", "untouched", "exit", "clean"}

ASSUME PoolAssumption ==
  /\ IsFiniteSet(Frames) /\ Frames \subseteq Nat
  /\ IsFiniteSet(Guards)
  /\ MaxPages \in Nat \ {0} /\ Words \subseteq Nat /\ 1 \in Words
  /\ Habits \subseteq AllHabits

VARIABLES
  pool,     \* buffer_, page_table_, free_list_, replacer_ and disk_
  guards,   \* frame_ of each guard, the page it was obtained for, and
            \* whether that page was deleted since
  latest    \* the pages clients have, and what they last wrote to them

vars == <<pool, guards, latest>>

EmptyFrame == [page_id |-> INVALID_PAGE_ID, is_dirty |-> FALSE,
               pin_count |-> 0, data |-> Zeros]

NoGuard == [frame |-> -1, page |-> INVALID_PAGE_ID, stale |-> FALSE]

(* A process starts with an empty pool.                                    *)
EmptyPool(disk) ==
  [buffer |-> [f \in Frames |-> EmptyFrame],
   page_table |-> [p \in {} |-> 0],
   free_list |-> Seqs!SetToSeq(Frames),
   lru |-> EmptyReplacer, disk |-> disk]

-----------------------------------------------------------------------------
(* The pool's own functions, as operators from pool to pool.               *)

Cached(s, page) == page \in DOMAIN s.page_table

Uncached(s, page) ==
  [p \in DOMAIN s.page_table \ {page} |-> s.page_table[p]]

WithEntry(s, page, frame) ==
  [p \in DOMAIN s.page_table \cup {page} |->
     IF p = page THEN frame ELSE s.page_table[p]]

(* Otherwise NewFrameGuarded and FetchFrameBasic throw.                    *)
CanTakeFrame(s) == s.free_list # <<>> \/ CanEvict(s.lru)

WrittenBack(disk, frame) ==
  IF frame.is_dirty THEN WriteFrame(disk, frame.page_id, frame.data) ELSE disk

(* Mutant: the evicted frame's page stays in the page table.               *)
EnsureFreeListKeepingEntry(s) ==
  LET victim == Victim(s.lru) IN
  IF s.free_list # <<>> THEN s
  ELSE [s EXCEPT !.buffer[victim] = EmptyFrame,
                 !.free_list = <<victim>>,
                 !.lru = Evict(@),
                 !.disk = WrittenBack(@, s.buffer[victim])]

(* Mutant: a dirty frame is evicted without being written back.            *)
EnsureFreeListUnwritten(s) ==
  LET victim == Victim(s.lru) IN
  IF s.free_list # <<>> THEN s
  ELSE [s EXCEPT !.buffer[victim] = EmptyFrame,
                 !.page_table = Uncached(s, s.buffer[victim].page_id),
                 !.free_list = <<victim>>,
                 !.lru = Evict(@)]

(* An empty free list gets the frame the replacer gives up.                *)
EnsureFreeList(s) ==
  LET victim == Victim(s.lru) IN
  IF s.free_list # <<>> THEN s
  ELSE [s EXCEPT !.buffer[victim] = EmptyFrame,
                 !.page_table = Uncached(s, s.buffer[victim].page_id),
                 !.free_list = <<victim>>,
                 !.lru = Evict(@),
                 !.disk = WrittenBack(@, s.buffer[victim])]

(* The last free frame gets the page, with one pin.                        *)
PutInFrame(s, page, data) ==
  LET frame == Seqs!Last(s.free_list)
      filled == [s.buffer[frame] EXCEPT !.page_id = page, !.pin_count = @ + 1,
                                        !.data = data]
  IN  [s EXCEPT !.buffer[frame] = filled,
                !.page_table = WithEntry(s, page, frame),
                !.free_list = Seqs!Front(@),
                !.lru = RecordAccess(@, page)]

NewFrame(s) ==
  LET room == EnsureFreeList(s)
      page == NextPage(room.disk)
  IN  PutInFrame([room EXCEPT !.disk = AllocateFrame(@)], page, Zeros)

FetchCached(s, page) ==
  LET frame == s.page_table[page]
      pinned == [s.buffer[frame] EXCEPT !.pin_count = @ + 1]
      accessed == RecordAccess(s.lru, page)
  IN  [s EXCEPT !.buffer[frame] = pinned,
                !.lru = IF s.buffer[frame].pin_count = 0
                        THEN SetNonevictable(accessed, frame) ELSE accessed]

FetchFrame(s, page) ==
  LET room == EnsureFreeList(s) IN
  IF Cached(s, page) THEN FetchCached(s, page)
  ELSE PutInFrame([room EXCEPT !.disk = ReadFrame(@, page)],
                  page, DataRead(room.disk, page))

(* Mutant: an unpinned frame can be unpinned once more.                    *)
UnpinFrameUnchecked(s, page, is_dirty) ==
  LET frame == s.page_table[page]
      pins == s.buffer[frame].pin_count
  IN  IF ~Cached(s, page) THEN s
      ELSE [s EXCEPT !.buffer[frame].pin_count = pins - 1,
                     !.buffer[frame].is_dirty = @ \/ is_dirty,
                     !.lru = IF pins = 1 THEN SetEvictable(@, frame, page) ELSE @]

(* Mutant: the first of several guards dropped makes the frame evictable.  *)
UnpinFrameAtOnce(s, page, is_dirty) ==
  LET frame == s.page_table[page]
      pins == s.buffer[frame].pin_count
  IN  IF ~Cached(s, page) \/ pins <= 0 THEN s
      ELSE [s EXCEPT !.buffer[frame].pin_count = pins - 1,
                     !.buffer[frame].is_dirty = @ \/ is_dirty,
                     !.lru = SetEvictable(@, frame, page)]

(* UnpinFrame goes by the page the frame has now.                          *)
UnpinFrame(s, page, is_dirty) ==
  LET frame == s.page_table[page]
      pins == s.buffer[frame].pin_count
      unpinned == [s.buffer[frame] EXCEPT !.pin_count = @ - 1,
                                          !.is_dirty = @ \/ is_dirty]
  IN  IF ~Cached(s, page) \/ pins <= 0 THEN s
      ELSE [s EXCEPT !.buffer[frame] = unpinned,
                     !.lru = IF pins = 1 THEN SetEvictable(@, frame, page) ELSE @]

(* Whatever its pin count.                                                 *)
DeletePage(s, page) ==
  LET frame == s.page_table[page]
      freed == IF ~Cached(s, page) THEN s
               ELSE [s EXCEPT !.buffer[frame] = EmptyFrame,
                              !.lru = Forget(@, frame, page),
                              !.free_list = Append(@, frame),
                              !.page_table = Uncached(s, page)]
  IN  [freed EXCEPT !.disk = DeallocateFrame(@, page)]

(* Mutant: the destructor writes the info page only.                       *)
FlushAllFramesInfoOnly(s) == ShutDown(s.disk)

(* The destructor writes all dirty frames and then the info page.  No two  *)
(* frames hold the same page, so their order does not matter.              *)
FlushAllFrames(s) ==
  LET dirty == {f \in Frames : s.buffer[f].is_dirty}
      written == {s.buffer[f].page_id : f \in dirty}
      HeldIn(page) == CHOOSE f \in dirty : s.buffer[f].page_id = page
  IN  ShutDown(WriteFrames(s.disk,
                           [page \in written |-> s.buffer[HeldIn(page)].data]))

-----------------------------------------------------------------------------
(* The clients.                                                            *)

Init ==
  /\ pool = EmptyPool(NewDisk)
  /\ guards = [g \in Guards |-> NoGuard]
  /\ latest = [p \in {} |-> Zeros]

Idle(g) == guards[g] = NoGuard
Live(g) == guards[g].frame \in Frames /\ ~guards[g].stale
PageId(g) == pool.buffer[guards[g].frame].page_id

Obtain(g, page) ==
  guards' = [guards EXCEPT ![g] =
    [frame |-> pool'.page_table[page], page |-> page, stale |-> FALSE]]

Know(page, data) ==
  latest' = [p \in DOMAIN latest \cup {page} |->
               IF p = page THEN data ELSE latest[p]]

(* A tree takes a page and initialises it through AsMut, which marks the   *)
(* frame dirty.  Allocate of the store does not write to the page; its     *)
(* caller may not either (AddUser, when the name is taken).                *)
NewPage(g, data) ==
  LET page == NextPage(EnsureFreeList(pool).disk)
      frame == Seqs!Last(EnsureFreeList(pool).free_list)
  IN  /\ Idle(g) /\ CanTakeFrame(pool) /\ page \in PageIds
      /\ data = Zeros => "untouched" \in Habits
      /\ pool' = [NewFrame(pool) EXCEPT
                    !.buffer[frame] = [@ EXCEPT !.data = data,
                                                !.is_dirty = data # Zeros]]
      /\ Obtain(g, page)
      /\ Know(page, data)

Fetch(g, page) ==
  /\ Idle(g) /\ page \in DOMAIN latest
  /\ Cached(pool, page) \/ CanTakeFrame(pool)
  /\ pool' = FetchFrame(pool, page)
  /\ Obtain(g, page)
  /\ UNCHANGED latest

(* AsMut marks the frame dirty before anything is written.                 *)
Write(g, data) ==
  /\ Live(g)
  /\ pool' = [pool EXCEPT !.buffer[guards[g].frame] =
                            [@ EXCEPT !.data = data, !.is_dirty = TRUE]]
  /\ Know(guards[g].page, data)
  /\ UNCHANGED guards

(* A copied guard, such as the one in a Handle, is a pin of its own.       *)
Copy(g, h) ==
  LET frame == guards[g].frame
      pinned == [pool.buffer[frame] EXCEPT !.pin_count = @ + 1]
  IN  /\ Live(g) /\ Idle(h)
      /\ pool' = [pool EXCEPT !.buffer[frame] = pinned]
      /\ guards' = [guards EXCEPT ![h] = guards[g]]
      /\ UNCHANGED latest

(* Guards are locals: one obtained after another went stale goes first.    *)
GoesFirst(g) ==
  guards[g].stale =>
    \A h \in Guards : guards[h].frame = guards[g].frame => guards[h].stale

Drop(g) ==
  /\ ~Idle(g) /\ GoesFirst(g)
  /\ pool' = UnpinFrame(pool, PageId(g), pool.buffer[guards[g].frame].is_dirty)
  /\ guards' = [guards EXCEPT ![g] = NoGuard]
  /\ UNCHANGED latest

(* Any page, or only one that has been written to the file before.         *)
MayDelete(page) ==
  \/ "delete" \in Habits
  \/ "delete_saved" \in Habits /\ WholePage(pool.disk, page)

(* A tree deletes a page it merged away; an iterator may still be there.   *)
Delete(g) ==
  LET page == guards[g].page IN
  /\ Live(g) /\ MayDelete(page)
  /\ pool' = DeletePage(pool, page)
  /\ guards' = [h \in Guards |->
       CASE h = g -> NoGuard
         [] h # g /\ guards[h].page = page -> [guards[h] EXCEPT !.stale = TRUE]
         [] OTHER -> guards[h]]
  /\ latest' = [p \in DOMAIN latest \ {page} |-> latest[p]]

NoGuards == \A g \in Guards : Idle(g)

(* exit, and a new start of the program.                                   *)
Reopen ==
  /\ "exit" \in Habits /\ NoGuards
  /\ pool' = EmptyPool(Opened(FlushAllFrames(pool)))
  /\ UNCHANGED <<guards, latest>>

(* clean makes the new system on the file it has just truncated, and only  *)
(* then destroys the old one, which writes its frames and its info page    *)
(* into the same file.                                                     *)
Clean ==
  LET truncated == [NewDisk EXCEPT !.size = pool.disk.size,
                                   !.free_head = pool.disk.free_head,
                                   !.failed = pool.disk.failed]
      left == FlushAllFrames([pool EXCEPT !.disk = truncated])
  IN  /\ "clean" \in Habits /\ NoGuards
      /\ pool' = EmptyPool([NewDisk EXCEPT !.pages = left.pages,
                              !.length = left.length, !.info = left.info])
      /\ latest' = [p \in {} |-> Zeros]
      /\ UNCHANGED guards

Next ==
  \/ \E g \in Guards :
       \/ \E data \in {Zeros, Initialised} : NewPage(g, data)
       \/ \E page \in PageIds : Fetch(g, page)
       \/ \E data \in Contents \ {Zeros, Initialised} : Write(g, data)
       \/ \E h \in Guards : Copy(g, h)
       \/ Drop(g)
       \/ Delete(g)
  \/ Reopen
  \/ Clean

Spec == Init /\ [][Next]_vars

-----------------------------------------------------------------------------
(* Properties.                                                             *)

(* Every component of the pool has the values the code can give it; a page *)
(* is in the page table only if its frame is in the buffer, and times in   *)
(* the replacer never run ahead of its clock.                              *)
PoolTypeOK ==
  /\ pool.buffer \in [Frames -> [page_id : PageIds \cup {INVALID_PAGE_ID},
                                 is_dirty : BOOLEAN, pin_count : 0 .. Cardinality(Guards),
                                 data : Nat \X Nat]]
  /\ DOMAIN pool.page_table \subseteq PageIds
  /\ \A p \in DOMAIN pool.page_table : pool.page_table[p] \in Frames
  /\ pool.disk.size \in 0 .. MaxPages
  /\ pool.disk.length \in 0 .. 2 * MaxPages
  /\ \A p \in DOMAIN pool.lru.history : \A i \in 1 .. K :
       pool.lru.history[p][i] \in 0 .. pool.lru.time
  /\ guards \in [Guards -> [frame : Frames \cup {-1},
                            page : PageIds \cup {INVALID_PAGE_ID}, stale : BOOLEAN]]

(* Every frame is either free, and then empty and listed once, or in the   *)
(* page table under the one page it holds: evictions, fetches and deletions*)
(* of pinned pages never lose a frame nor show a page in two.              *)
FramesAccountedFor ==
  \A f \in Frames :
    LET frame == pool.buffer[f]
        listed == {i \in DOMAIN pool.free_list : pool.free_list[i] = f}
        holding == {p \in DOMAIN pool.page_table : pool.page_table[p] = f}
    IN  \/ Cardinality(listed) = 1 /\ holding = {} /\ frame = EmptyFrame
        \/ listed = {} /\ holding = {frame.page_id}

(* A frame is pinned exactly as often as live guards hold it, and the      *)
(* replacer offers exactly the unpinned frames: a pin that is forgotten    *)
(* blocks a frame for ever, one that is lost lets it be evicted under its  *)
(* user, and two frames at the same distance would lose one of them.       *)
PinsExact ==
  \A f \in Frames :
    LET holders == {g \in Guards : Live(g) /\ guards[g].frame = f}
        entries == {d \in DOMAIN pool.lru.evictable : pool.lru.evictable[d] = f}
        frame == pool.buffer[f]
    IN  /\ frame.pin_count = Cardinality(holders)
        /\ entries = IF frame.page_id # INVALID_PAGE_ID /\ holders = {}
                     THEN {pool.lru.hint[f]} ELSE {}

(* While a guard is held its frame keeps the page: nobody's pointer into a *)
(* frame is redirected to another page by an eviction or by the early      *)
(* unpinning through a guard whose page was deleted.                       *)
GuardsStayPut ==
  \A g \in Guards : Live(g) => PageId(g) = guards[g].page

(* What a client would read of a page.                                     *)
Readable(page) ==
  IF Cached(pool, page) THEN pool.buffer[pool.page_table[page]].data
  ELSE DataRead(pool.disk, page)

(* A page reads as what was last written to it, through evictions, pages   *)
(* deleted and handed out again, exit, restart and clean.                  *)
ReadsLatest == \A p \in DOMAIN latest : Readable(p) = latest[p]

Store == INSTANCE PageStore WITH InitialData <- {Zeros, Initialised},
                                 WrittenData <- Contents \ {Zeros, Initialised}

(* With ReadsLatest: the pool is a store of pages, and a page that is      *)
(* handed out belongs to nobody else.                                      *)
ImplementsPageStore == Store!Spec

(* DiskManager asserts page_id >= 0 && page_id < size_ of every page it is *)
(* asked to read, write or deallocate, and those are the pages clients     *)
(* have.                                                                   *)
PagesInFile == \A p \in DOMAIN latest : p < pool.disk.size

=============================================================================
