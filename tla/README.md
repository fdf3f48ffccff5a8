# ACM-TicketSystem: specification, checks and proofs

This directory specifies the train ticket system of `src/` in TLA+: users and
their sessions, trains and their seats, orders, the queue of orders that wait
for seats, and the storage underneath.  TLC checks the modules on small
instances; TLAPS proves the statements that matter most for every value of the
constants.  `PROJECT.json` maps each definition to the lines it models and lists
runs, theorems, mutants, hazards and findings.

## 1. The system

One process reads commands from standard input, one at a time, and keeps all of
its data in one database file.

| Component | Source | State it keeps | Operations |
|---|---|---|---|
| `UserManager` | `user_manager.*` | profiles (B+-tree `user_id_index_` to records in the variable-length store); sessions `logged_in_users_`, in memory only | `add_user`, `login`, `logout`, `query_profile`, `modify_profile`, the destructor |
| `TrainManager` | `train_manager.*` | `train_id_index_`, `TrainInfo` and `Vacancy` records, `station_train_index_` | `add_train`, `delete_train`, `release_train`, `query_train`, `query_ticket`, `query_transfer` |
| `TicketManager` / `TicketSystem` | `ticket_manager.h`, `ticket_system.*` | `ticket_index_` (orders), `pending_queue_` | `buy_ticket`, `query_order`, `refund_ticket` |
| `TicketSystemCLI` | `cli.*`, `main.cpp` | the one `TicketSystem` | dispatch, `clean`, `exit` |
| `BPlusTree` | `b_plus_tree*` | pages of keys and values | `GetValue`, `Insert`, `Remove`, `SetValue`, iteration in key order |
| `VarLengthStore` | `variable_length_store.h` | position of the next free byte | `Allocate`, `Get` |
| `BufferPoolManager` | `buffer_pool_manager.h`, `lru_k_replacer.*` | frames, pins, dirty flags, page history | fetch, new, delete, flush, guards |
| `DiskManager` | `disk_manager.h` | the file: free list, size, info page | read, write, allocate, deallocate |
| algorithms, parsing | `utility.h`, `parser.*`, `hash.*` | none | bounds, sort, dates and times, hashing |

`TicketSystem` *is* the three managers (it inherits from them), and the managers
call the trees and the store, which call the buffer pool, which calls the disk.
They interact through shared tables: `buy_ticket` reads the session, the train
and its vacancies, counts the order in the session, and writes the order and
either the vacancies or the queue; `refund_ticket` writes vacancies, orders and
queue in one loop.

What is hard here is not parallelism, for there is none.  It is
 - long sequences of legal commands: what one command leaves behind in one table
   is used by a command much later through another table;
 - the scan of the queue inside `refund_ticket`, which reads what it writes and
   deletes what it walks over only afterwards;
 - values cached in the session (privilege, order count) that must agree with
   the file over logout, login, restart and modification by somebody else;
 - index arithmetic: batches of days in flat arrays, days across midnight,
   16-bit times and order numbers;
 - asserts that the release build does not have, so that a call that "cannot
   fail" is not noticed when it does.

What makes each component correct:
 - users: a session agrees with its profile; a privilege comes only from a
   strictly higher one; nobody else reaches the first user's; counts survive.
 - trains: names, records and station lists agree; each day and leg on sale has
   exactly one place in the vacancies; what was released stays.
 - orders and queue: never fewer than no seats; seats free and seats sold add
   up; the queue and the waiting orders are the same set; between commands
   nobody waits for seats that are free; first come, first served; orders are
   numbered without a gap; a refunded order stays refunded.
 - storage: the trees are the maps the managers take them for; nothing that was
   written is lost at a restart; no page is handed out twice.

## 2. The modules

| Module | Models | Extends |
|---|---|---|
| `OrderedMap` | what the managers rely on of a `BPlusTree`: `Insert` never overwrites, `SetValue` does, `Remove` ignores missing keys | - |
| `UserManager` | profiles and sessions | - |
| `TrainManager` | trains, vacancies, station index, the timetable arithmetic | `OrderedMap` |
| `Utility` | `upper_bound`, `merge` and `sort` of `utility.h` | - |
| `Parser` | dates and times of `parser.cpp`, both ways | - |
| `Queries` | `query_train`, `query_ticket`, `query_transfer`; what passengers are promised, as sets of rides | `TrainManager`, `Parser`, `Utility` |
| `TicketSystem` | the whole program: both managers, orders, queue, restart, clean | `UserManager`, `TrainManager` |
| `TicketQueries` | `query_order`, and the queries while seats are sold | `TicketSystem`, `Queries` |
| `SeatLedger` | abstract specification: a ledger of orders, fits decided by counting sold lines | - |
| `TicketLedger` | the refinement mapping from `TicketSystem` to `SeatLedger` | `TicketSystem` |
| `KeyValueStore` | abstract specification: what each operation of a tree answers and does to a map | `OrderedMap` (instance) |
| `BPlusTree` | the tree as frames on pages: search, splits, borrowing, merging, hints, iteration, `Validate` | `Utility` (instance) |
| `BPlusTreeStore` | the tree and the abstract store side by side, given the same operations | `BPlusTree` |
| `PageStore` | abstract specification: pages that hold what was written last, new pages that nobody has | - |
| `RecordStore` | abstract specification: a map of records that keep their size and hold what their owners write | - |
| `VarLengthStore` | records one after another in pages, between the trees' own pages | `PageStore` (instance) |
| `LRUKReplacer`, `DiskManager` | replacer and file, as operators on a record | - |
| `BufferPoolManager` | the pool between clients with guards and the file; exit, restart, clean | `LRUKReplacer`, `DiskManager` |
| `UserManagerProofs`, `TrainManagerProofs`, `TicketSystemProofs`, `VarLengthStoreProofs`, `UtilityProofs` | theorems | the module of the name |
| `TicketLedgerProofs` | the steps of the refinement of `SeatLedger` | `TicketLedger`, `TicketSystemProofs` |
| `QueriesProofs` | theorems about what the queries print, alone and while seats are sold | `TicketQueries`, `TicketSystemProofs`, `UtilityProofs` |
| `BufferPoolProofs` | theorems about pool, replacer, file and guards, and the refinement of `PageStore` | `BufferPoolManager` |
| `MC...` | instances for TLC | |

### Correspondence

*Users.*  `profiles` is the index and the records at once (`NoUser` for a name
not in the index), `logged_in_users` the map in memory.  `AddUser`, `Login`,
`Logout`, `ModifyProfile` have the guards of the handlers in their order;
`CountOrder` is the `order_count++` of `BuyTicket`; `UserRestart` is the
destructor, which writes counts back, followed by a new process; `UserClean` is
`clean`.

*Trains.*  A record id stands for the address the store gives a record; it is
never reused, because the store only grows.  `trains` has the `TrainInfo`
without its flag, `released` the ids whose flag is set.  `vacancy` has one row per
batch of days, the flat array of the code, with `Slot` its index function.
`LeaveTime` accumulates in `int16_t`, as the code does.

*Queries.*  They change nothing and are operators over the state.  The code walks
two iterators over `station_train_index_`, sorts with a merge sort of its own,
enumerates changes and cuts with comparisons of its own; the module does the same:
`JoinStep` is one turn of the outer loop of `query_ticket` and `Join` the loop, `Sort` and
`Merge` are the recursion and the loops of `utility.h`, `Options` lists what the loops of
`query_transfer` come to in their order, `Consider` is its cut with the comparison behind
it, and `Best` the search.  Loops that carry a value are recursive functions of the turn;
what an iterator meets (`TrainsAt`, the keys of `QueryOrder`) is the ascending list of what
the tree holds.  Beside them stand the reference definitions - rides,
itineraries, what a printed line shows - without index, join, sort or cut, and the
properties compare the two in every state.  Names are numbers in the order of the
strings; a date is `<<month, day>>` outside and a day from the 1st of June inside,
through `ParseDate` and `DateString` in both directions.  Of several changes equal in
time and cost the code keeps the first one it enumerates (the names in `Option` take no
part: an equal option is skipped before `<=>` is reached), and the model does the same;
no document says which it should be, and no property does.

*Orders.*  `ticket_index` is keyed by user and *negated* order number, as in the
code, so that iteration starts at the latest.  `pending_queue` is keyed by train,
day and timestamp.  `BuyTicket` is one action.  `RefundTicket` is one action when the
order waits (`RefundWaiting`: it is only marked) and otherwise begins with
`RefundSold`, goes through the queue with one of `SkipEntry`, `DropEntry`,
`PromoteEntry` per entry, and ends with `FinishRefund`, which deletes the entries
collected and writes the handler's own copy of the order back.  The locals of the
handler are the variable `refund`; while it is not `Idle` no other command runs.
Splitting the handler does not add behaviours - the program is sequential - but
lets the properties speak about its middle.

*Trees.*  `tree` is the root and a function from pages to frames; a frame has its
kind, keys, values (children of an internal frame, `PAGE_ID(0)` first) and next
page.  The stack of a `Context` is a sequence of positions, the leaf's last.
`InsertInLeaf`, `InsertInParent`, `RemoveInLeaf`, `RemoveInInternal` are operators
from a tree to a tree of the same names; their recursion up the stack is
recursion here.  One operation is one action: the tree has one user at a time.
`answer` is what the operation returned and the value it handed out.
`BPlusTreeStore` gives each operation to the tree and to `KeyValueStore` and
compares what clients see and what they were answered; the map of the abstract
store is the one the managers' modules use through `OrderedMap`.

`KeyIndex` finds its place with `UpperBound` of `Utility`, bit by bit as the code does.

*Records.*  `VarLengthStore` allocates in pages of `PageStore`.  `top_pos` is the
position in the info page; a record id is the position of the first byte.  `sizes`
is what the owners of records know and only observes.  The trees take, write and give
back pages of the same pool, so that the store's pages are anywhere and a new one may
have been a tree's.  Objects written to are bytes; what the bytes mean is left to the
managers.

*Storage.*  `pool` is the `BufferPoolManager` with its replacer and its disk, as
one record; the functions of the three classes are operators from record to
record, and the actions are what clients do: `NewPage`, `Fetch`, `Write`, `Copy`,
`Drop`, `Delete` through a guard, `Reopen` (exit and a new start), `Clean`.
`guards` has the page each guard was obtained for besides the frame the code
keeps, and `latest` what clients wrote last: both only observe.  A page is two
words, because the free list is written into the first bytes of a page and the
rest stays.  The length of the file counts half pages for the same reason.
`Habits` says what clients of a run do: delete pages (any, or only those that are
in the file already), leave a new page untouched, exit, clean.

### Abstractions and assumptions

 - Names are hashed in the code; hashes are taken to be free of collisions.
 - A command that fails prints -1 and changes nothing: it is a stuttering step
   and no action.  Commands that only read are no actions; the queries are operators.
 - Passwords only decide whether `login` does nothing; prices only add up; both
   are left out of the state that properties see (`price` is kept in `trains`).
 - Timestamps come with the input; the input's are strictly increasing, so a
   counter `clock` stands for them, advanced only when an entry is queued.
 - The build is the release build: `ASSERT` is nothing.  A local `TicketInfo` that
   is read before it is assigned has one of the values `Leftovers`.
 - What `KeyAt(0)` reads, the bytes before the first key of a leaf, is taken to
   equal no key.  `Insert`, `GetOrEmplace` and `Remove` read it, against the comment of
   `KeyAt`, when the key is smaller than every key of the leaf.
 - The trees' pages and the pool meet in `PageStore`: the tree's module has pages
   that keep their contents, the pool's module shows when they do.
 - Guards are locals of C++ functions, so one that was obtained after another went
   stale (its page was deleted) is dropped before it: `GoesFirst`.
 - The only pages on which `SetValue` gets a hint belong to trees that never delete.
 - A kill of the process is not survived and not claimed to be: the info page
   is written at shutdown.  `Restart` is `exit` and a new start.

## 3. Runs

| Run | Instance | What it shows |
|---|---|---|
| `users` | three users, privileges 0, 2, 10 and the missing `-g`, one order each | sessions agree with profiles, one root, privileges flow down, counts survive |
| `trains` | three names, records and timetables over four stations, around midnight and the end of July; batches of two days, two or three days on sale; queries for every pair of stations and two days, by time and by cost | indices agree, layout of the vacancies exact, dates agree, released trains stay; `query_ticket` lists the rides of the day and no others, in order, with times, price and the seats of the table of vacancies (all free: nobody buys here); `query_transfer` prints a change nobody can beat if there is one |
| `queue` | one user, three orders, one train of two legs, two seats, two days on sale in different batches and months, one or two seats per order | no overselling, seats conserved, queue matches orders, nobody waits for free seats, orders' life cycle, first come first served; `query_train` and `query_ticket` agree on times, prices and seats, and the seats they show are those no order has; what is bought is what `query_ticket` offered, as `query_order` shows it |
| `sessions` | two users with two orders each, one seat | order numbers without a gap over logout, login, restart and clean; types; orders servable |
| `ledger` | one user, four orders, one leg, two seats | the program implements the ledger; a refund ends |
| `tree` | leaves of two keys, internal frames of three, seven keys, a hint at each leaf | types and links, answers and contents as the store's, the code's own `Validate`, iteration, one parent per page |
| `pool` | two frames, three pages, two guards, K = 2; pages deleted while pinned | frames accounted for, pins exact, guards stay on their page |
| `restarts` | one frame, three pages, two guards; pages written, deleted once they are in the file, reused; exit and clean | reads return what was written last; pages in use are inside the file; the pool implements the page store |
| `store` | frames of three bytes, records of one to three, three pages shared with the trees | records never share a byte; the store is a map of records |
| `refund_default` | `refund_ticket` without `-n` | finding, see below |
| `long_train` | a journey of 23 days | finding, see below |
| `lost_pages` | two frames, three pages, two guards; any page deleted, or left untouched, and exit | finding, see below |

Bounds: `MaxOrders` bounds the orders of a user (a guard of `CountOrder`); the
sets of names, records, trains, dates, seats and order numbers are finite
constants.  Three orders are the fewest with which the scan of a refund meets two
entries: the first served and the second passed over for the seats it took, both served,
or the entry of a refunded order dropped and the next one served.  That an entry which
does not fit is skipped and a later one served takes a fourth order, one that keeps its
seats: the `ledger` run has four, and the theorems about the queue suppose no number.
Two legs make ranges that overlap in part, two
days in different batches (and `DATE_BATCH_SIZE` 2 for 10) make rows and remainders
matter.  Two users are enough for one's refund to serve another's order.

In the `trains` run two of the trains cross midnight into August, one has days on sale
that begin inside a batch, two are equally fast on a common part, one can be changed to
at two stations, and one begins its sale days after the others arrive: these are the
cases of the corrections and ties in the queries.  Three trains give chains of two with
a third that competes.  The days of the queries are the last of July and the first of
August, where `DateString` changes its month.  Times and days stay far inside `date_t` and
`time_t`, whose widths matter only in `long_train`.  In the `store` run frames of three
bytes can be full, short by one or two, and skipped; a byte other than zero is enough to
see a write in the wrong place.

In the tree runs the page a frame has is of no consequence, and `VIEW` identifies
trees of the same shape; pages are taken lowest first.  With
leaves of two and internal frames of three keys a frame is split with the new key
below, above and at the cut, and borrows from and merges with either side on both
levels; seven keys give three levels.  `PageIds` has room for every tree of these
keys.  In the storage
runs `VIEW` replaces the times of accesses by their ranks, for the replacer only
compares them, and guards are symmetric.  Three pages in two frames (or one) force
evictions of clean and dirty frames; two guards on one page, or on two, or one of them stale,
are the cases of pinning.  `restarts` has two words to write, one of them what a
new page is set up with, so that a page handed out twice is seen.

Fairness: `FairSpec` has weak fairness of `RefundStep` alone: a handler that has
begun is a loop without a wait and runs to its end.  Nothing is assumed about
commands, which come from outside.  `LedgerSpec` asks in return that an order that
can be served is.

Each property has a mutant: the definition named in `PROJECT.json`, with a
plausible mistake in it, under which TLC finds the property violated.

### Findings

 - `refund_ticket` without `-n` passes 0, which names no order.  The handler goes on
   with an unassigned `TicketInfo` and may store an order under the key of the next
   one; the next `buy_ticket` then takes seats and stores nothing
   (`NextKeyFree`).  The proofs about orders assume `-n` is given and positive.
 - A journey of more than 32767 minutes wraps its `int16_t` times (`TimesAscend`).
 - The next start computes the number of pages from the length of the file, and a page
   that was handed out need not be in the file whole (`PagesInFile` in `lost_pages`).
   `add_user` with a name that is taken may allocate a page and never write to it: that
   is the shortest counterexample.  With `"untouched"` taken out of `Habits` TLC finds the
   other way: a last page that is deleted before it was ever written back leaves four
   bytes at the end of the file, the head of the free list is outside, and the page is
   handed out once from the list and once as a new one.

## 4. Proofs

The theorems hold for every value of the constants under the named assumptions
(`UserAssumption`, `TrainAssumption`, `TicketAssumption`, `QueryAssumption`,
`StoreAssumption`, `ReplacerAssumption`, `PoolAssumption`): privileges are integers
between -1 and the first user's, names and records of trains are numbers in their order,
queries name a day of June to September, batches have at least one day, every train of
the input has a timetable `add_train` accepts, seats are positive, an object of the
store is not larger than a frame, frames are numbered and finitely many, guards are
finitely many, a page can be written with ones, K is positive.  Some theorems assume more, and say so in an ASSUME of
their own:

 - those about orders assume `ProperOrderNos`: `-n` is given and positive, which is
   exactly what the finding `refund_default` needs;
 - `TrainsLeaveOnDayAsked` assumes `DeparturesFit`: no departure is late enough to wrap
   to a negative `time_t`, as the train of `long_train` does;
 - those about the pool assume `Restartable`: clients that exit have not deleted pages
   that were never in the file (`"delete"`), and have left no page unwritten
   (`"untouched"`).  The finding `lost_pages` shows both ways to lose a page;
   pages that are in the file already may be deleted (`"delete_saved"`) and reused;
 - `PagesReadLatest` and `PoolTypesHold` also assume that nobody leaves a page unwritten:
   reading a page that is not in the file makes the stream fail, and from then on
   nothing is read or written;
 - those about queries assume `ProperTimetables`: no train of the input calls at a station
   twice, and its times fit `time_t` (the first is a promise of the input format that
   `GetStationNo` relies on, the second is what `long_train` lacks);
 - `TicketsAsOffered` also assumes `BuysAsked`: the stations and days of `QueryStations` and
   `QueryDays` cover what `buy_ticket` is asked, for one cannot compare a purchase with a
   question nobody may ask.  The modules `MCQueries` and `MCTicketQueries` let TLC confirm
   that the instances it checks satisfy these hypotheses;
 - `UpperBoundIsExact` assumes that the sequence is ascending and that its length has fewer
   than 32 bits; `SortIsExact` that the comparison is a strict weak order.

| Theorem | Statement |
|---|---|
| `SessionsMatchProfiles` | `SessionMatchesProfile` is invariant |
| `UserTypesHold` | `UserTypeOK` is invariant |
| `AuthorityFlowsDown` | every step satisfies `PrivilegeFlowsDown` |
| `RootIsUnique` | `OneRoot` is invariant |
| `CountsSurvive` | every step satisfies `OrderCountKept` |
| `TrainIndicesAgree` | `NamesExact`, `StationIndexExact` and the types of `TrainManager` are invariant |
| `TrainTypesHold`, `NamesAgree` | the first two of these, each on its own |
| `LayoutIsExact` | `EverySeatHasAPlace` is invariant |
| `ReleasedTrainsStay` | every step satisfies `ReleasedStays` |
| `TrainsLeaveOnDayAsked` | `LeavesOnDayAsked` is invariant |
| `TypesHold` | `TypeOK` of the whole program is invariant |
| `NumbersHaveNoGap` | `OrdersNumbered` is invariant |
| `OrdersStayServable` | `OrdersServable` is invariant |
| `QueueAndOrdersAgree` | `QueueMatchesOrders` is invariant |
| `SeatsNeverNegative` | `NoOversell` is invariant |
| `OrdersGoOneWay` | every step satisfies `OrderLifecycle` |
| `WaitersCannotBeServed` | `NobodyWaitsForFreeSeats` is invariant |
| `QueueInTurn` | every step satisfies `FirstComeFirstServed` |
| `SeatsAreConserved` | `SeatConservation` is invariant |
| `ProgramImplementsLedger` | the whole program implements the safety part of `SeatLedger` |
| `RecordsStayApart` | `RecordsApart` is invariant |
| `StoreImplementsRecords` | `ImplementsRecordStore`: the variable-length store implements `RecordStore` |
| `PoolTypesHold` | `PoolTypeOK` is invariant |
| `FramesStayAccountedFor` | `FramesAccountedFor` is invariant |
| `PinsStayExact` | `PinsExact` is invariant |
| `GuardsAreNotRedirected` | every step satisfies `GuardsStayPut` |
| `PagesStayInFile` | `PagesInFile` is invariant |
| `PagesReadLatest` | `ReadsLatest` is invariant |
| `PoolImplementsPageStore` | `ImplementsPageStore`: the pool implements `PageStore` |
| `TicketsAreExact` | `TicketsExact` is invariant: `query_ticket` prints the rides of the day, each and no other, in order, with times, price and the least vacancy of the legs |
| `TransfersAreBest` | `TransferBest` is invariant: `query_transfer` finds a change if there is one, and none is better |
| `QueriesStayExact` | both of these in the whole program, whatever is bought, queued and refunded between |
| `TrainAndTicketTellTheSame` | `TrainAndTicketAgree` is invariant: the two queries tell the same, and the seats shown are the train's less those of the orders sold |
| `TicketsAsOffered` | every step satisfies `TicketAsOffered`: what is bought is a line of the query before |
| `UpperBoundIsExact` | `upper_bound` returns the first greater element of any ascending sequence |
| `SortIsExact` | `sort` lists every sequence in order, equal elements in the order they had |

*Users.*  `UserInv` is types and `SessionMatchesProfile` together: logout stores the
session's count into the profile, so types alone are not inductive.  One lemma per
command; the action properties and `OneRoot` follow from `UserInv` and lemmas that say
whose privilege authorised a change.

*Trains.*  `TrainInv` is types, `NamesExact`, `StationIndexExact` and the shape of
the vacancy table.  That places are inside the array and distinct is arithmetic
about `Slot` (`PlaceInArray`, `PlaceUnique`: division and remainder of days by the
batch size), stated as lemmas for any batch size and number of stations.  The day asked
for is arithmetic too, once it is known that the times of a record are those `add_train`
computed from an input (`RecordsFromInput`); what the sums are is of no consequence.

*The whole program*, in layers, each using those above it.
 1. `BaseInv`: `UserInv`, `TrainInv` and types.
 2. `OrdersInv`: orders of a user have exactly the numbers 1 to its count
    (`KeysNumbered`); while a refund runs, the handler's copy equals the order in
    the index (`CopyIsCurrent`); every order names a train that is
    released and a day on sale (`AllServable`); queue and waiting orders agree, where
    the entries already promoted count as gone (`QueueMatchesOrders`).  Each conjunct
    needs the others: a queue entry leads to its order only because numbers have no
    gap, and the order written back at the end is right only because its copy is
    current.
 3. Seats are naturals: a purchase or promotion takes seats only from legs it found
    to have them, and each leg has its own place (`LayoutIsExact`).
 4. `PassedDontFit`: a waiting order whose entry the iterator of a refund has passed (or
    any waiting order, between commands) does not fit.  `NobodyWaitsForFreeSeats` alone is not
    inductive, because it says nothing of the middle of a scan.  Two facts about `Fits` carry
    it: promoting an order only takes seats, so that nothing passed begins to fit, and the
    seats a refund gives back are of one train and day, whose entries the scan visits in the
    order of their timestamps.  `FirstComeFirstServed` follows: who is served is the
    entry the iterator stands at, and all earlier ones have been passed.
 5. `Conserved` and `FewOrders`: on every day and leg the vacancy and the sold seats
    add up, and the orders are finitely many.  Sold seats are counted as a set of pairs
    of an order and one of its seats, so that every step is one of three: no seat on sale
    changes hands, an order without seats gets them in its range, or the order that has them
    loses them.  That a step changes only the places of its own legs is
    `LayoutIsExact` again.

*The ledger.*  Each step of the program is mapped to a step of `SeatLedger` or to none:
a purchase books or queues, `RefundSold` and `RefundWaiting` refund, `PromoteEntry` serves,
the rest of the scan and every command of other managers are invisible.  Layer 5 is what makes
the fits of the two agree: the ledger counts sold lines where the program reads vacancies.
`SinceFollows` says that an entry's timestamp is when its order came, which the
ledger has as a field of the line.  The liveness part of `ImplementsLedger` stays with TLC.

*Records.*  `StoreInv` says besides `RecordsApart` that the top position, unless it is at
a frame's border, is in a frame of the store, behind its records, and that the frame is
zeros from there on: without the first two an allocation could meet a record or a
tree's page, without the last a new record would not begin as zeros.  The lemmas below
are arithmetic: a position is its frame times the size plus the place in the frame, and
records of different frames do not meet.  For the refinement each step is shown to be
a step of `RecordStore` or to leave the frames of the records alone.

*The pool.*  `PoolInv` has three parts, and the lemmas go through the functions of the
code one by one, each saying what it keeps of them.
 - `PoolOK` is about the pool itself.  Frames and page table lead to each other and free frames
   are empty (`FramesOK`), the free list has each free frame once (`FreeListOK`), and the
   replacer is offered the used frames nobody has pinned, each under the distance it has
   now (`OffersOK`).  The last needs `LruOK`: times of last access differ between pages, so
   that distances do, or two frames would share one entry of the set and one would never
   be evicted.
 - `GuardsOK` says that the pin count of a frame is the number of guards that hold it and
   are not stale, and that each finds its page there.  A frame with a live guard is
   therefore not offered, and `GuardsStayPut` follows.
 - `StoreOK` is about the file.  The pages in use are below `size_` (`UsedOK`); the pages on the
   free list are a set apart from them, whose first words lead from the head along different
   pages to the end (`FreeOK` with `ChainOK`; the set is a witness, no variable has it);
   and every page in use is what was written last, in its frame or else in the file, and in
   the file whole unless its frame is dirty (`KeptOK`).  The chain needs the clause that its
   pages are whole in the file: the next start computes `size_` from the length of the file.

`FlushAllFrames` writes frame after frame in the code; since no two frames have the same page
the order is of no consequence, and `WriteFrames` writes all dirty ones at once.
For `PoolImplementsPageStore` a page that is handed out must be nobody else's: it comes from the
free set, or is `size_` itself.

*Algorithms.*  `UpperBoundIsExact`: at bit `b` the position is the number of elements not
greater than the value with the bits below `b` cleared.  `SortIsExact` is about positions: a
sequence is listed by a function to the positions of the original that meets each, one before
the other by `Before` (less, or equal and first), so that it says sorted, complete and stable
at once; `MergeLists` and `ListsBoth` compose such lists.  A recursive function is a CHOOSE, of
which nothing is known until some function is shown to satisfy the equation: `RestExists`,
`PartsExist` build one from the smaller arguments up.  Induction is over sets of numbers
(`LeastNat`, `FromZeroOn`), since the library's induction theorems take an operator.

*Queries.*  They read, so nothing is inductive about the answers: the invariant is `QueriesInv`,
which is what they read - types, `NamesExact`, `StationIndexExact`, that the times of a record
are those computed from an input, and that the trains are finitely many.  The rest is about
operators, from the bottom up.
 - A ride is a train, a day and two of its stations.  `DepartDate`, `DepartsOnce`,
   `DateRoundTrip` and `PrintedTime` are the arithmetic of midnight and of the
   months: the day computed back from the day asked is the only one on which the train leaves
   then, and the date printed is the date typed.
 - `JoinIsExact`: after each turn of the loop the second iterator stands at the first train
   not before the last one met by the first, and what was found is what both lists share so far.
   `SortedByKey` takes `SortIsExact` to the keys of lines; names are unique, so the order
   is strict.  Together they are `TicketLines`, from which `TicketsShown` and with it
   `TicketsAreExact` follow.
 - For `query_transfer`, `FirstTrainsExact` and `OptionsServe` say that the options are pairs of
   rides that connect, `OptionsWithTrain` and `OptionsAtStation` that every such pair of trains
   and place to change is listed.  Not every itinerary is an option: one may wait for days,
   while the code takes the first suitable day (`FirstSuitableDay`).  `WaitsNoLonger`
   and `EarlierIsNoWorse` show that such an itinerary is beaten or equalled by an option.
   `ConsiderLeads` and `BestLeads` are the search: after each turn nothing seen so far is
   better than what is held, although the cut compares two keys only.
 - `LineIsRows` computes a line of `query_ticket` and the rows of `query_train` from the same ride,
   and takes their seats to the orders: by `Conserved` a vacancy is what the orders sold leave of
   the train's seats (`VacantIsUnsold`).
 - `TicketIsOffered` joins the two sides of a purchase: the handler's day, stations and test of the
   seats (`FitsBySeats`) against the line of the query, and `LatestOrderIsFirst`, which
   needs that order numbers have no gap, against what `query_order` shows.  That the orders of a
   user become more only by a purchase is counted on finite sets (`FewOrders`).
   `SellingKeepsRecords` carries `QueriesInv` through all commands of the program.

Only model-checked:
 - that a refund ends, and the liveness of the ledger: liveness needs ENABLED;
 - `TimesAscend`, which is false (`long_train`);
 - the tree (`TreeTypeOK`, `TreeValid`, `EveryPageHasOneParent`, `IterationInOrder`,
   `ImplementsStore`): its recursion up the stack is RECURSIVE operators, about which the
   prover cannot reason.

## 5. Not modelled, and the plan

Written so far, in this order: `OrderedMap`, `UserManager`, `TrainManager`,
`TicketSystem`, the ledger, their proofs, `BPlusTree`, `BufferPoolManager`, then
`Queries` with `Parser` and `Utility`, `TicketQueries`, `VarLengthStore` and its proofs, then
the proofs about orders, seats and the ledger, those of the buffer pool, those of `Utility`, and
those about the queries.

What is left to prove is the tree.  Its recursion up the stack would first be written as
functions of the level, with an invariant that has the key bounds of each frame as a
witness; then `TreeValid` and `IterationInOrder` follow from the bounds, and the steps of
`ImplementsStore` from what a leaf between its bounds answers.

Not modelled:
 - `query_profile` prints two fields of a profile.
 - `Parser::Read` and `DelimitedStrIterator` split text, `get_field` and `set_field` copy
   it, and hashing turns names into keys, taken to be free of collisions.
 - `lower_bound` of `utility.h` has no caller.
 - Order numbers are `int16_t`: 32767 orders of a user are beyond what TLC can reach.
 - A kill of the process: the program does not claim to survive one.
 - The vendored containers in `third_party` (one is used as a stack), formatted output,
   build files, scripts, and the test drivers in `main.cpp`.
