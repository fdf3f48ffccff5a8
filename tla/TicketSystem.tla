---------------------------- MODULE TicketSystem ----------------------------
(***************************************************************************)
(* class TicketSystem, which is at once the UserManager, the TrainManager  *)
(* and the TicketManager: orders (ticket_index_), the queue of the orders  *)
(* that wait for seats (pending_queue_), and the commands that move them.  *)
(*                                                                         *)
(* The program runs one command at a time.  A command is one action, but   *)
(* for a refund that gives seats back: its loop over the queue is one      *)
(* action per entry, with the locals of the handler in variable refund,    *)
(* and no other command is served until it ends.                           *)
(***************************************************************************)
EXTENDS Integers, FiniteSets, OrderedMap, UserManager, TrainManager

CONSTANTS
  BuyDates,   \* the values of -d given to buy_ticket, as day numbers
  SeatNos,    \* the values of -n given to buy_ticket
  OrderNos,   \* the values of -n given to refund_ticket, 0 when -n is absent
  Leftovers,  \* what TicketInfo ticket may hold before it is assigned
  Idle        \* refund when no refund is under way

VARIABLES
  ticket_index,    \* map: <<user, -order_no>> -> TicketInfo
  pending_queue,   \* map: <<train, date, timestamp>> -> TicketSimpleInfo
  clock,           \* a timestamp later than those of the queue
  refund           \* the locals of RefundTicket, or Idle

ticketVars == <<ticket_index, pending_queue, clock, refund>>
vars == <<userVars, trainVars, ticketVars>>

Status == {"SUCCESS", "PENDING", "REFUNDED"}

TicketInfos ==
  [status : Status, date : Int, from : Nat, to : Nat, train_id : TrainIds,
   seat_count : Nat]

TicketSimpleInfos ==
  [from : Nat, to : Nat, order_no : Nat, seat_count : Nat, user_id : Users]

Refunds ==
  [user : Users, order_no : Int, ticket : TicketInfos, next : Nat,
   to_delete : SUBSET (TrainIds \X Int \X Nat)]

ASSUME TicketAssumption ==
  /\ BuyDates \subseteq Int
  /\ SeatNos \subseteq Nat \ {0}
  /\ OrderNos \subseteq Int
  /\ Idle \notin Refunds

Init ==
  /\ UserInit
  /\ TrainInit
  /\ ticket_index = EmptyMap
  /\ pending_queue = EmptyMap
  /\ clock = 1
  /\ refund = Idle

TicketInfo(status, id, date, from, to, num) ==
  [status |-> status, date |-> date, from |-> from, to |-> to,
   train_id |-> id, seat_count |-> num]

WithStatus(ticket, status) ==
  TicketInfo(status, ticket.train_id, ticket.date, ticket.from, ticket.to,
             ticket.seat_count)

(* The key of the order with this number, counted from 0, the oldest.      *)
OrderKey(u, order_no) == <<u, -order_no>>

-----------------------------------------------------------------------------
(* The order is numbered and stored.  If the seats are there they are      *)
(* taken, otherwise the order is queued.                                   *)
PlaceOrder(u, id, date, from, to, num) ==
  LET order_no == logged_in_users[u].order_count
      fits == Fits(id, date, from, to, num)
  IN /\ CountOrder(u)
     /\ ticket_index' = Insert(ticket_index, OrderKey(u, order_no),
          TicketInfo(IF fits THEN "SUCCESS" ELSE "PENDING",
                     id, date, from, to, num))
     /\ IF fits
          THEN /\ vacancy' = ReduceVacancy(id, date, from, to, num)
               /\ UNCHANGED <<pending_queue, clock>>
          ELSE /\ pending_queue' = Insert(pending_queue, <<id, date, clock>>,
                    [from |-> from, to |-> to, order_no |-> order_no,
                     seat_count |-> num, user_id |-> u])
               /\ clock' = clock + 1
               /\ UNCHANGED vacancy

(* Sold are the trains that are released, stop at both stations in this    *)
(* order, are on sale on the day they depart, and have that many seats.    *)
BuyTicket(u, name, date, s, e, num, agree_to_wait) ==
  /\ refund = Idle
  /\ date >= 0
  /\ LoggedIn(u)
  /\ Found(train_id_index, name)
  /\ LET id == train_id_index[name]
     IN /\ id \in released
        /\ num <= trains[id].seat_count
        /\ \E from, to \in 0 .. trains[id].station_count - 1 :
             LET depart_date == GetDepartDate(id, date, from)
             IN /\ IsStationNo(id, s, from)
                /\ IsStationNo(id, e, to)
                /\ from < to
                /\ IsOnSale(id, depart_date)
                /\ agree_to_wait \/ Fits(id, depart_date, from, to, num)
                /\ PlaceOrder(u, id, depart_date, from, to, num)
  /\ UNCHANGED <<train_id_index, trains, released, station_train_index, refund>>

-----------------------------------------------------------------------------
(* RefundTicket counts from the latest order: -n 1 is the latest.          *)
OrderNo(u, order_latest_no) ==
  logged_in_users[u].order_count - order_latest_no

(* The TicketInfo the handler works on.  If the order is not found - -n    *)
(* was absent, or not positive - the local variable was never assigned.    *)
FoundTicket(u, order_no) ==
  IF Found(ticket_index, OrderKey(u, order_no))
    THEN {ticket_index[OrderKey(u, order_no)]}
    ELSE Leftovers

(* An order that waits is marked and nothing else is done: its entry stays *)
(* in the queue until a scan finds seats for it.                           *)
RefundWaiting(u, order_latest_no) ==
  LET order_no == OrderNo(u, order_latest_no)
  IN /\ refund = Idle
     /\ LoggedIn(u)
     /\ order_latest_no <= logged_in_users[u].order_count
     /\ \E ticket \in FoundTicket(u, order_no) :
          /\ ticket.status = "PENDING"
          /\ ticket_index' = SetValue(ticket_index, OrderKey(u, order_no),
                                      WithStatus(ticket, "REFUNDED"))
     /\ UNCHANGED <<userVars, trainVars, pending_queue, clock, refund>>

(* The seats of a sold order are given back, and the scan of the queue of  *)
(* the train and day begins.                                               *)
RefundSold(u, order_latest_no) ==
  LET order_no == OrderNo(u, order_latest_no)
  IN /\ refund = Idle
     /\ LoggedIn(u)
     /\ order_latest_no <= logged_in_users[u].order_count
     /\ \E ticket \in FoundTicket(u, order_no) :
          /\ ticket.status = "SUCCESS"
          /\ vacancy' = ReduceVacancy(ticket.train_id, ticket.date,
               ticket.from, ticket.to, -ticket.seat_count)
          /\ refund' = [user |-> u, order_no |-> order_no, ticket |-> ticket,
                        next |-> 0, to_delete |-> {}]
     /\ UNCHANGED <<userVars, train_id_index, trains, released,
                    station_train_index, ticket_index, pending_queue, clock>>

(* The entries of the train and day the iterator has not passed yet.       *)
Remaining ==
  {k \in DOMAIN pending_queue :
     /\ k[1] = refund.ticket.train_id
     /\ k[2] = refund.ticket.date
     /\ k[3] >= refund.next}

(* Mutant: the iterator runs from the latest entry to the earliest.        *)
ScanAtLatest(k) ==
  /\ refund # Idle
  /\ k \in Remaining
  /\ \A j \in Remaining : k[3] >= j[3]
  /\ UNCHANGED <<userVars, train_id_index, trains, released,
                 station_train_index, pending_queue, clock>>

(* The iterator stands at entry k, the earliest that remains.              *)
ScanAt(k) ==
  /\ refund # Idle
  /\ k \in Remaining
  /\ \A j \in Remaining : k[3] <= j[3]
  /\ UNCHANGED <<userVars, train_id_index, trains, released,
                 station_train_index, pending_queue, clock>>

EntryFits(k) ==
  LET e == pending_queue[k] IN Fits(k[1], k[2], e.from, e.to, e.seat_count)

EntryOrder(k) == OrderKey(pending_queue[k].user_id, pending_queue[k].order_no)

(* Mutant: break where the code has continue.                              *)
SkipEntryAndRest(k) ==
  /\ ScanAt(k)
  /\ ~EntryFits(k)
  /\ refund' = [refund EXCEPT !.next = clock]
  /\ UNCHANGED <<vacancy, ticket_index>>

(* Mutant: the iterator is not moved on.                                   *)
SkipEntryInPlace(k) ==
  /\ ScanAt(k)
  /\ ~EntryFits(k)
  /\ UNCHANGED <<refund, vacancy, ticket_index>>

(* Not enough seats: the entry keeps its place.                            *)
SkipEntry(k) ==
  /\ ScanAt(k)
  /\ ~EntryFits(k)
  /\ refund' = [refund EXCEPT !.next = k[3] + 1]
  /\ UNCHANGED <<vacancy, ticket_index>>

(* The order no longer waits: its entry is to be deleted.                  *)
DropEntry(k) ==
  /\ ScanAt(k)
  /\ EntryFits(k)
  /\ ticket_index[EntryOrder(k)].status # "PENDING"
  /\ refund' = [refund EXCEPT !.next = k[3] + 1, !.to_delete = @ \cup {k}]
  /\ UNCHANGED <<vacancy, ticket_index>>

(* Mutant: break after the first order that gets its seats.                *)
PromoteOneEntry(k) ==
  /\ ScanAt(k)
  /\ EntryFits(k)
  /\ ticket_index[EntryOrder(k)].status = "PENDING"
  /\ LET e == pending_queue[k]
     IN vacancy' = ReduceVacancy(k[1], k[2], e.from, e.to, e.seat_count)
  /\ ticket_index' = SetValue(ticket_index, EntryOrder(k),
                       WithStatus(ticket_index[EntryOrder(k)], "SUCCESS"))
  /\ refund' = [refund EXCEPT !.next = clock, !.to_delete = @ \cup {k}]

(* Mutant: the status of the order is not looked at.                       *)
PromoteAnyEntry(k) ==
  /\ ScanAt(k)
  /\ EntryFits(k)
  /\ LET e == pending_queue[k]
     IN vacancy' = ReduceVacancy(k[1], k[2], e.from, e.to, e.seat_count)
  /\ ticket_index' = SetValue(ticket_index, EntryOrder(k),
                       WithStatus(ticket_index[EntryOrder(k)], "SUCCESS"))
  /\ refund' = [refund EXCEPT !.next = k[3] + 1, !.to_delete = @ \cup {k}]

(* The order gets its seats, and its entry is to be deleted.               *)
PromoteEntry(k) ==
  /\ ScanAt(k)
  /\ EntryFits(k)
  /\ ticket_index[EntryOrder(k)].status = "PENDING"
  /\ LET e == pending_queue[k]
     IN vacancy' = ReduceVacancy(k[1], k[2], e.from, e.to, e.seat_count)
  /\ ticket_index' = SetValue(ticket_index, EntryOrder(k),
                       WithStatus(ticket_index[EntryOrder(k)], "SUCCESS"))
  /\ refund' = [refund EXCEPT !.next = k[3] + 1, !.to_delete = @ \cup {k}]

(* Mutant: the entries collected in to_delete are not deleted.             *)
FinishRefundKeepEntries ==
  /\ refund # Idle
  /\ Remaining = {}
  /\ ticket_index' =
       SetValue(ticket_index, OrderKey(refund.user, refund.order_no),
                WithStatus(refund.ticket, "REFUNDED"))
  /\ refund' = Idle
  /\ UNCHANGED <<userVars, trainVars, pending_queue, clock>>

(* After the loop: the entries are deleted, and the handler's copy of the  *)
(* order is written back as refunded.                                      *)
FinishRefund ==
  /\ refund # Idle
  /\ Remaining = {}
  /\ pending_queue' = Remove(pending_queue, refund.to_delete)
  /\ ticket_index' =
       SetValue(ticket_index, OrderKey(refund.user, refund.order_no),
                WithStatus(refund.ticket, "REFUNDED"))
  /\ refund' = Idle
  /\ UNCHANGED <<userVars, trainVars, clock>>

RefundStep ==
  \/ \E k \in DOMAIN pending_queue : SkipEntry(k)
  \/ \E k \in DOMAIN pending_queue : DropEntry(k)
  \/ \E k \in DOMAIN pending_queue : PromoteEntry(k)
  \/ FinishRefund

-----------------------------------------------------------------------------
UserStep ==
  /\ refund = Idle
  /\ UserCommand
  /\ UNCHANGED <<trainVars, ticketVars>>

TrainStep ==
  /\ refund = Idle
  /\ TrainCommand
  /\ UNCHANGED <<userVars, ticketVars>>

(* The command exit, or the end of the input, and a new process on the     *)
(* same file: the destructors run, the sessions are gone.                  *)
Restart ==
  /\ refund = Idle
  /\ UserRestart
  /\ UNCHANGED <<trainVars, ticketVars>>

(* The command clean.  With the queue empty any time is a later one.       *)
Clean ==
  /\ refund = Idle
  /\ UserClean
  /\ TrainClean
  /\ ticket_index' = EmptyMap
  /\ pending_queue' = EmptyMap
  /\ clock' = 1
  /\ UNCHANGED refund

Next ==
  \/ UserStep
  \/ TrainStep
  \/ \E u \in Users, name \in TrainNames, date \in BuyDates,
        s, e \in Stations, num \in SeatNos, agree_to_wait \in BOOLEAN :
       BuyTicket(u, name, date, s, e, num, agree_to_wait)
  \/ \E u \in Users, n \in OrderNos : RefundWaiting(u, n)
  \/ \E u \in Users, n \in OrderNos : RefundSold(u, n)
  \/ RefundStep
  \/ Restart
  \/ Clean

Spec == Init /\ [][Next]_vars

(* A handler that has begun runs to its end.                               *)
FairSpec == Spec /\ WF_vars(RefundStep)

-----------------------------------------------------------------------------
TicketTypeOK ==
  /\ DOMAIN ticket_index \subseteq Users \X Int
  /\ \A k \in DOMAIN ticket_index : ticket_index[k] \in TicketInfos
  /\ DOMAIN pending_queue \subseteq TrainIds \X Int \X Nat
  /\ \A k \in DOMAIN pending_queue : pending_queue[k] \in TicketSimpleInfos
  /\ clock \in Nat
  /\ refund \in Refunds \cup {Idle}

(* Every part of the state has its type.                                   *)
TypeOK == UserTypeOK /\ TrainTypeOK /\ TicketTypeOK

(* ReduceVacancy's ASSERT(vacancy[i] >= 0), train_manager.cpp:88: no leg   *)
(* of any day ever has fewer than no seats, whatever is bought, promoted   *)
(* from the queue and refunded.                                            *)
NoOversell ==
  \A k \in DOMAIN vacancy :
    \A j \in DOMAIN vacancy[k] : vacancy[k][j] >= 0

(* The order whose seats RefundTicket has already given back, and which    *)
(* the index calls sold until the handler ends.                            *)
BeingRefunded(k) ==
  refund # Idle /\ k = OrderKey(refund.user, refund.order_no)

HoldsSeats(k, id, date, i) ==
  LET t == ticket_index[k]
  IN /\ t.status = "SUCCESS" /\ ~BeingRefunded(k)
     /\ t.train_id = id /\ t.date = date
     /\ i \in t.from .. t.to - 1

HeldSeats(id, date, i) ==
  {ks \in (DOMAIN ticket_index) \X (1 .. trains[id].seat_count) :
     HoldsSeats(ks[1], id, date, i) /\ ks[2] <= ticket_index[ks[1]].seat_count}

(* No seat is lost and none is created: on every day and leg on sale the   *)
(* seats in the Vacancy record and the seats of the sold orders that cover *)
(* the leg add up to the seats of the train, also in the middle of a       *)
(* refund.  Two tables, updated by three handlers, in the flat array.      *)
SeatConservation ==
  \A id \in released :
    \A date \in trains[id].date_beg .. trains[id].date_end,
       i \in 0 .. trains[id].station_count - 2 :
      GetVacancy(id, date, i) + Cardinality(HeldSeats(id, date, i))
        = trains[id].seat_count

(* RefundTicket's scan and BuyTicket's reading of the vacancies together:  *)
(* between commands no order waits for seats that are there.               *)
Waits(k) == ticket_index[k].status = "PENDING"

OrderFits(k) ==
  LET t == ticket_index[k]
  IN Fits(t.train_id, t.date, t.from, t.to, t.seat_count)

NobodyWaitsForFreeSeats ==
  refund = Idle =>
    \A k \in DOMAIN ticket_index : Waits(k) => ~OrderFits(k)

ToDelete == IF refund = Idle THEN {} ELSE refund.to_delete

Queues(q, k) ==
  LET e == pending_queue[q] t == ticket_index[k]
  IN /\ k = EntryOrder(q)
     /\ q[1] = t.train_id /\ q[2] = t.date
     /\ e.from = t.from /\ e.to = t.to /\ e.seat_count = t.seat_count

(* The queue and the orders agree although they are written one after the  *)
(* other and entries are deleted late: every waiting order has exactly one *)
(* entry, with the order's own train, day, stations and seats; every entry *)
(* leads to its order (ASSERT(pos2), ticket_system.cpp:194); and no entry  *)
(* of a sold order is left to be found again.                              *)
QueueMatchesOrders ==
  /\ \A k \in DOMAIN ticket_index : Waits(k) =>
       \E q \in DOMAIN pending_queue \ ToDelete : Queues(q, k)
  /\ \A q \in DOMAIN pending_queue :
       /\ EntryOrder(q) \in DOMAIN ticket_index
       /\ Queues(q, EntryOrder(q))
       /\ q[3] < clock
       /\ ticket_index[EntryOrder(q)].status = "SUCCESS" => q \in ToDelete
       /\ \A r \in DOMAIN pending_queue :
            EntryOrder(q) = EntryOrder(r) => q = r

(* The orders of a user are numbered without a gap: query_order prints as  *)
(* many lines as the count above them, its n-th line is the order that     *)
(* refund_ticket -n n takes, and BuyTicket always finds its next key free  *)
(* (ASSERT(result), ticket_system.cpp:70).  The count is in the session,   *)
(* the orders are in the file, and a session may be closed, or the program *)
(* restarted, at any time between.                                         *)
OrdersNumbered ==
  \A u \in Users :
    {k \in DOMAIN ticket_index : k[1] = u}
      = {OrderKey(u, i) : i \in 0 .. OrderCount(u) - 1}

(* BuyTicket's ASSERT(result), ticket_system.cpp:70: the key of the next   *)
(* order of a session is free.                                             *)
NextKeyFree ==
  \A u \in Users : LoggedIn(u) =>
    ~Found(ticket_index, OrderKey(u, logged_in_users[u].order_count))

(* An order that is waiting or sold is one the train can serve: released,  *)
(* on sale that day, between two of its stations in order, for no more     *)
(* seats than it has.                                                      *)
IsServable(t) ==
  /\ t.train_id \in released
  /\ trains[t.train_id].date_beg <= t.date
  /\ t.date <= trains[t.train_id].date_end
  /\ 0 <= t.from /\ t.from < t.to
  /\ t.to < trains[t.train_id].station_count
  /\ t.seat_count \in 1 .. trains[t.train_id].seat_count

OrdersServable ==
  \A k \in DOMAIN ticket_index :
    ticket_index[k].status # "REFUNDED" => IsServable(ticket_index[k])

(* An order keeps everything but its status, a refunded order stays        *)
(* refunded - the handler writes back a copy it took before the scan - a   *)
(* sold one never waits again, and none disappears but by clean.           *)
OrderLifecycle ==
  [][profiles' # [u \in Users |-> NoUser] =>
       \A k \in DOMAIN ticket_index :
         /\ Found(ticket_index', k)
         /\ ticket_index'[k] = WithStatus(ticket_index[k], ticket_index'[k].status)
         /\ ticket_index[k].status = "REFUNDED" =>
              ticket_index'[k].status = "REFUNDED"
         /\ ticket_index[k].status = "SUCCESS" =>
              ticket_index'[k].status \in {"SUCCESS", "REFUNDED"}]_vars

(* First come, first served: an order that waits is given seats only when  *)
(* no order of the same train and day that has waited longer could have    *)
(* had them.  (A new order that fits may still overtake those that wait.)  *)
FirstComeFirstServed ==
  [][\A q \in DOMAIN pending_queue :
       /\ EntryOrder(q) \in DOMAIN ticket_index'
       /\ Waits(EntryOrder(q))
       /\ ticket_index'[EntryOrder(q)].status = "SUCCESS"
       => \A r \in DOMAIN pending_queue :
            /\ r[1] = q[1] /\ r[2] = q[2] /\ r[3] < q[3]
            /\ Waits(EntryOrder(r))
            => ~EntryFits(r)]_vars

(* The handler's loop over the queue ends.                                 *)
RefundEnds == refund # Idle ~> refund = Idle
======================================================================================================================================================
