------------------------- MODULE TicketSystemProofs --------------------------
(***************************************************************************)
(* The whole program keeps its types, sells no seat twice, numbers the     *)
(* orders of a user without a gap, and keeps queue and orders in step, for *)
(* any users, trains, dates and numbers of seats.  The invariant is built  *)
(* in layers: users and trains first, whose lemmas are those of their own  *)
(* modules, then the orders with their queue, then the seats.  Over them   *)
(* stand the life of an order, the order in which those that wait are      *)
(* served, and the conservation of seats.                                  *)
(***************************************************************************)
EXTENDS TicketSystem, UserManagerProofs, TrainManagerProofs, FiniteSetTheorems, TLAPS

(* refund_ticket is given -n, and a number from 1 on: without it the       *)
(* handler works on a variable it has not assigned (run refund_default).   *)
ProperOrderNos == OrderNos \subseteq Nat \ {0}

-----------------------------------------------------------------------------
(* The first layer: what the managers keep by themselves they keep here.   *)
BaseInv == UserInv /\ TrainInv

(* Seats taken or given back change the numbers in one row.                *)
LEMMA ReduceVacancyInv ==
  ASSUME TrainInv, NEW id, NEW date, NEW from, NEW to, NEW num,
         vacancy' = ReduceVacancy(id, date, from, to, num),
         UNCHANGED <<train_id_index, trains, released, station_train_index>>
  PROVE  TrainInv'
  <1>1. DOMAIN vacancy' = DOMAIN vacancy
    BY DEF ReduceVacancy
  <1>2. \A k \in DOMAIN vacancy : DOMAIN vacancy'[k] = DOMAIN vacancy[k]
    BY DEF ReduceVacancy
  <1> QED
    BY <1>1, <1>2, TrainRowsInv

LEMMA TrainStutterInv ==
  ASSUME TrainInv, UNCHANGED trainVars
  PROVE  TrainInv'
  BY TrainRowsInv DEF trainVars

LEMMA TrainCommandInv ==
  ASSUME TrainInv, TrainCommand
  PROVE  TrainInv'
  BY TrainNextInv DEF TrainNext

LEMMA BaseInit ==
  ASSUME Init
  PROVE  BaseInv
  BY UserInitInv, TrainInitInv DEF Init, BaseInv

LEMMA BuyTicketBase ==
  ASSUME BaseInv,
         NEW u \in Users, NEW name, NEW date, NEW s, NEW e, NEW num, NEW agree,
         BuyTicket(u, name, date, s, e, num, agree)
  PROVE  BaseInv'
  <1>1. UserInv'
    BY CountOrderInv DEF BaseInv, BuyTicket, PlaceOrder
  <1>2. PICK id, day, from, to :
          /\ UNCHANGED <<train_id_index, trains, released, station_train_index>>
          /\ \/ vacancy' = ReduceVacancy(id, day, from, to, num)
             \/ UNCHANGED vacancy
    BY DEF BuyTicket, PlaceOrder
  <1>3. TrainInv'
    <2>1. CASE vacancy' = ReduceVacancy(id, day, from, to, num)
      BY <1>2, <2>1, ReduceVacancyInv DEF BaseInv
    <2>2. CASE UNCHANGED vacancy
      BY <1>2, <2>2, TrainStutterInv DEF BaseInv, trainVars
    <2> QED
      BY <1>2, <2>1, <2>2
  <1> QED
    BY <1>1, <1>3 DEF BaseInv

LEMMA RefundSoldBase ==
  ASSUME BaseInv, NEW u, NEW n, RefundSold(u, n)
  PROVE  BaseInv'
  <1>1. PICK id, day, from, to, num :
          vacancy' = ReduceVacancy(id, day, from, to, num)
    BY DEF RefundSold
  <1>2. UNCHANGED <<userVars, train_id_index, trains, released,
                    station_train_index>>
    BY DEF RefundSold
  <1> QED
    BY <1>1, <1>2, ReduceVacancyInv, UserStutterInv DEF BaseInv

LEMMA RefundStepBase ==
  ASSUME BaseInv, RefundStep
  PROVE  BaseInv'
  <1>1. UNCHANGED <<userVars, train_id_index, trains, released,
                    station_train_index>>
    BY DEF RefundStep, SkipEntry, DropEntry, PromoteEntry, ScanAt, FinishRefund,
           trainVars
  <1>2. \/ \E id, day, from, to, num :
             vacancy' = ReduceVacancy(id, day, from, to, num)
        \/ UNCHANGED vacancy
    BY DEF RefundStep, SkipEntry, DropEntry, PromoteEntry, FinishRefund,
           trainVars
  <1>3. TrainInv'
    <2>1. ASSUME NEW id, NEW day, NEW from, NEW to, NEW num,
                 vacancy' = ReduceVacancy(id, day, from, to, num)
          PROVE  TrainInv'
      BY <1>1, <2>1, ReduceVacancyInv DEF BaseInv
    <2>2. CASE UNCHANGED vacancy
      BY <1>1, <2>2, TrainStutterInv DEF BaseInv, trainVars
    <2> QED
      BY <1>2, <2>1, <2>2
  <1> QED
    BY <1>1, <1>3, UserStutterInv DEF BaseInv

LEMMA BaseNext ==
  ASSUME BaseInv, [Next]_vars
  PROVE  BaseInv'
  <1>1. CASE UserStep
    BY <1>1, UserCommandInv, TrainStutterInv DEF UserStep, BaseInv
  <1>2. CASE TrainStep
    BY <1>2, TrainCommandInv, UserStutterInv DEF TrainStep, BaseInv
  <1>3. CASE \E u \in Users, name \in TrainNames, date \in BuyDates,
                s, e \in Stations, num \in SeatNos, agree \in BOOLEAN :
               BuyTicket(u, name, date, s, e, num, agree)
    BY <1>3, BuyTicketBase
  <1>4. CASE \E u \in Users, n \in OrderNos : RefundWaiting(u, n)
    BY <1>4, UserStutterInv, TrainStutterInv DEF RefundWaiting, BaseInv
  <1>5. CASE \E u \in Users, n \in OrderNos : RefundSold(u, n)
    BY <1>5, RefundSoldBase
  <1>6. CASE RefundStep
    BY <1>6, RefundStepBase
  <1>7. CASE Restart
    BY <1>7, UserRestartInv, TrainStutterInv DEF Restart, BaseInv
  <1>8. CASE Clean
    BY <1>8, UserCleanInv, TrainCleanInv DEF Clean, BaseInv
  <1>9. CASE UNCHANGED vars
    BY <1>9, UserStutterInv, TrainStutterInv DEF vars, BaseInv
  <1> QED
    BY <1>1, <1>2, <1>3, <1>4, <1>5, <1>6, <1>7, <1>8, <1>9 DEF Next

-----------------------------------------------------------------------------
(* The second layer: orders and queue.  The orders of a user are those     *)
(* numbered below the count, put as a condition on keys.                   *)
KeysNumbered ==
  \A u \in Users, n \in Int :
    <<u, n>> \in DOMAIN ticket_index <=> -n \in 0 .. OrderCount(u) - 1

(* Refunded orders were servable when they were placed, and still are.     *)
AllServable == \A k \in DOMAIN ticket_index : IsServable(ticket_index[k])

(* The handler's copy of the order it refunds is still what the index has: *)
(* the scan writes to orders that wait, and this one is sold.              *)
CopyIsCurrent ==
  refund # Idle =>
    LET k == OrderKey(refund.user, refund.order_no)
    IN /\ k \in DOMAIN ticket_index
       /\ ticket_index[k] = refund.ticket
       /\ refund.ticket.status = "SUCCESS"

OrdersInv ==
  /\ TicketTypeOK
  /\ KeysNumbered
  /\ AllServable
  /\ CopyIsCurrent
  /\ QueueMatchesOrders

LEMMA OrdersInit ==
  ASSUME Init
  PROVE  OrdersInv
  <1>1. TicketTypeOK
    BY DEF Init, TicketTypeOK, EmptyMap
  <1>2. KeysNumbered
    BY UserAssumption
    DEF Init, UserInit, KeysNumbered, OrderCount, LoggedIn, Registered, EmptyMap
  <1>3. AllServable /\ CopyIsCurrent
    BY DEF Init, AllServable, CopyIsCurrent, EmptyMap
  <1>4. QueueMatchesOrders
    BY DEF Init, QueueMatchesOrders, EmptyMap
  <1> QED
    BY <1>1, <1>2, <1>3, <1>4 DEF OrdersInv

LEMMA OrderCountNat ==
  ASSUME UserInv, NEW u \in Users
  PROVE  OrderCount(u) \in Nat
  BY DEF UserInv, UserTypeOK, OrderCount, LoggedIn, Registered, UserProfile,
         UserData

(* A command of UserManager and a restart move counts between session and  *)
(* profile and change none.                                                *)
LEMMA CommandKeepsCounts ==
  ASSUME UserInv, UserCommand \/ UserRestart, NEW v \in Users
  PROVE  OrderCount(v)' = OrderCount(v)
  <1>0. \A u \in Users : LoggedIn(u) => Registered(u) /\ profiles[u] \in UserProfile
    BY DEF UserInv, UserTypeOK, SessionMatchesProfile, Registered
  <1>1. ASSUME NEW c \in Users, NEW u \in Users, NEW g \in Privileges,
               AddUser(c, u, g)
        PROVE  OrderCount(v)' = OrderCount(v)
    BY <1>0, <1>1, UserAssumption
    DEF AddUser, OrderCount, LoggedIn, Registered, UserInv, UserTypeOK,
        UserProfile
  <1>2. ASSUME NEW u \in Users, Login(u)
        PROVE  OrderCount(v)' = OrderCount(v)
    BY <1>2, UserAssumption
    DEF Login, OrderCount, LoggedIn, Registered, UserInv, UserTypeOK, UserData,
        UserProfile
  <1>3. ASSUME NEW u \in Users, Logout(u)
        PROVE  OrderCount(v)' = OrderCount(v)
    BY <1>3, WriteBackValue
    DEF Logout, OrderCount, LoggedIn, Registered, UserInv, UserTypeOK
  <1>4. ASSUME NEW c \in Users, NEW u \in Users, NEW g \in Privileges,
               ModifyProfile(c, u, g)
        PROVE  OrderCount(v)' = OrderCount(v)
    BY <1>4, UserAssumption
    DEF ModifyProfile, OrderCount, LoggedIn, Registered, UserInv, UserTypeOK,
        UserData, UserProfile
  <1>5. CASE UserRestart
    BY <1>0, <1>5, WriteBackValue
    DEF UserRestart, OrderCount, LoggedIn, Registered
  <1> QED
    BY <1>1, <1>2, <1>3, <1>4, <1>5 DEF UserCommand

(* add_train, delete_train and release_train leave the records and rows of *)
(* the released trains as they are.                                        *)
LEMMA TrainCommandKeeps ==
  ASSUME TrainInv, TrainCommand
  PROVE  /\ \A id \in released : id \in released' /\ trains'[id] = trains[id]
         /\ \A k \in DOMAIN vacancy :
              k \in DOMAIN vacancy' /\ vacancy'[k] = vacancy[k]
  <1>1. ASSUME NEW name \in TrainNames, NEW x \in TrainIds,
               NEW t \in TrainInputs, AddTrain(name, x, t)
        PROVE  /\ \A id \in released : id \in released' /\ trains'[id] = trains[id]
               /\ vacancy' = vacancy
    BY <1>1 DEF AddTrain, Insert, Found, TrainInv, TrainTypeOK
  <1>2. ASSUME NEW name \in TrainNames, DeleteTrain(name)
        PROVE  UNCHANGED <<released, trains, vacancy>>
    BY <1>2 DEF DeleteTrain
  <1>3. ASSUME NEW name \in TrainNames, ReleaseTrain(name)
        PROVE  /\ released \subseteq released' /\ trains' = trains
               /\ \A k \in DOMAIN vacancy :
                    k \in DOMAIN vacancy' /\ vacancy'[k] = vacancy[k]
    <2>1. \A k \in DOMAIN vacancy : k[1] \in released
      BY DEF TrainInv, VacancyShape
    <2> QED
      BY <1>3, <2>1 DEF ReleaseTrain
  <1> QED
    BY <1>1, <1>2, <1>3 DEF TrainCommand

(* Steps that leave orders and queue alone.                                *)
LEMMA OrdersFrame ==
  ASSUME OrdersInv, UNCHANGED ticketVars,
         \A id \in released : id \in released' /\ trains'[id] = trains[id],
         \A v \in Users : OrderCount(v)' = OrderCount(v)
  PROVE  OrdersInv'
  <1>1. TicketTypeOK'
    BY DEF OrdersInv, TicketTypeOK, ticketVars
  <1>2. KeysNumbered'
    BY DEF OrdersInv, KeysNumbered, ticketVars
  <1>3. AllServable'
    BY DEF OrdersInv, AllServable, IsServable, ticketVars
  <1>4. CopyIsCurrent'
    BY DEF OrdersInv, CopyIsCurrent, OrderKey, ticketVars
  <1>5. QueueMatchesOrders'
    BY DEF OrdersInv, QueueMatchesOrders, Waits, Queues, EntryOrder, OrderKey,
           ToDelete, ticketVars
  <1> QED
    BY <1>1, <1>2, <1>3, <1>4, <1>5 DEF OrdersInv

(* What buy_ticket has found out when it places the order.                 *)
Bought(u, id, day, from, to, num) ==
  /\ refund = Idle
  /\ id \in TrainIds /\ day \in Nat /\ from \in Nat /\ to \in Nat
  /\ num \in Nat
  /\ \A status \in Status :
       IsServable(TicketInfo(status, id, day, from, to, num))
  /\ PlaceOrder(u, id, day, from, to, num)
  /\ UNCHANGED <<train_id_index, trains, released, station_train_index, refund>>

LEMMA BuyTicketPlaces ==
  ASSUME BaseInv,
         NEW u \in Users, NEW name, NEW date, NEW s, NEW e, NEW num \in SeatNos,
         NEW agree, BuyTicket(u, name, date, s, e, num, agree)
  PROVE  \E id, day, from, to : Bought(u, id, day, from, to, num)
  <1> DEFINE id == train_id_index[name]
  <1>1. PICK from \in 0 .. trains[id].station_count - 1,
             to \in 0 .. trains[id].station_count - 1 :
          /\ from < to
          /\ IsOnSale(id, GetDepartDate(id, date, from))
          /\ PlaceOrder(u, id, GetDepartDate(id, date, from), from, to, num)
    BY DEF BuyTicket
  <1>2. /\ refund = Idle /\ id \in released /\ num <= trains[id].seat_count
        /\ UNCHANGED <<train_id_index, trains, released, station_train_index,
                       refund>>
    BY DEF BuyTicket
  <1>3. id \in TrainIds /\ IsTrainInput(trains[id])
    BY <1>2 DEF BaseInv, TrainInv, TrainTypeOK
  <1> DEFINE day == GetDepartDate(id, date, from)
  <1> HIDE DEF id, day
  <1>4. /\ day \in trains[id].date_beg .. trains[id].date_end
        /\ PlaceOrder(u, id, day, from, to, num)
    BY <1>1 DEF IsOnSale, day
  <1>5. /\ day \in Nat /\ from \in Nat /\ to \in Nat
        /\ trains[id].station_count \in Nat
        /\ trains[id].date_beg <= day /\ day <= trains[id].date_end
    BY <1>1, <1>3, <1>4 DEF IsTrainInput
  <1>6. num \in Nat /\ num \in 1 .. trains[id].seat_count
    BY <1>2, <1>3, TicketAssumption DEF IsTrainInput
  <1>7. \A status \in Status :
          IsServable(TicketInfo(status, id, day, from, to, num))
    BY <1>1, <1>2, <1>5, <1>6 DEF IsServable, TicketInfo
  <1> QED
    BY <1>2, <1>3, <1>4, <1>5, <1>6, <1>7 DEF Bought

(* buy_ticket: a new order with the next number, and a new entry at the    *)
(* end of the queue if it waits.                                           *)
LEMMA BuyTicketOrders ==
  ASSUME BaseInv, OrdersInv,
         NEW u \in Users, NEW id, NEW day, NEW from, NEW to, NEW num,
         Bought(u, id, day, from, to, num)
  PROVE  OrdersInv'
  <1>1. PICK no, key, q :
          /\ no = logged_in_users[u].order_count
          /\ key = <<u, -no>>
          /\ q = <<id, day, clock>>
    OBVIOUS
  <1> DEFINE status == IF Fits(id, day, from, to, num) THEN "SUCCESS"
                       ELSE "PENDING"
             t == TicketInfo(status, id, day, from, to, num)
             e == [from |-> from, to |-> to, order_no |-> no,
                   seat_count |-> num, user_id |-> u]
  <1>2. /\ no \in Nat /\ OrderCount(u) = no /\ OrderCount(u)' = no + 1
        /\ \A v \in Users \ {u} : OrderCount(v)' = OrderCount(v)
        /\ key \in Users \X Int
    <2>1. /\ LoggedIn(u) /\ logged_in_users[u] \in UserData
          /\ logged_in_users' =
               [logged_in_users EXCEPT ![u].order_count = @ + 1]
          /\ UNCHANGED profiles
      BY DEF BaseInv, UserInv, UserTypeOK, Bought, PlaceOrder, CountOrder,
             LoggedIn
    <2>2. /\ logged_in_users'[u] =
               [logged_in_users[u] EXCEPT !.order_count = @ + 1]
          /\ \A v \in Users \ {u} : logged_in_users'[v] = logged_in_users[v]
      BY <2>1 DEF BaseInv, UserInv, UserTypeOK
    <2>3. no \in Nat /\ OrderCount(u) = no
      BY <1>1, <2>1 DEF OrderCount, UserData
    <2>4. LoggedIn(u)' /\ OrderCount(u)' = no + 1
      BY <1>1, <2>1, <2>2, UserAssumption DEF OrderCount, LoggedIn, UserData
    <2>5. \A v \in Users \ {u} : OrderCount(v)' = OrderCount(v)
      BY <2>1, <2>2 DEF OrderCount, LoggedIn, Registered
    <2> QED
      BY <1>1, <2>3, <2>4, <2>5
  <1>3. /\ key \notin DOMAIN ticket_index
        /\ DOMAIN ticket_index' = DOMAIN ticket_index \cup {key}
        /\ ticket_index'[key] = t
        /\ \A k \in DOMAIN ticket_index : ticket_index'[k] = ticket_index[k]
    <2>1. key \notin DOMAIN ticket_index
      BY <1>1, <1>2 DEF OrdersInv, KeysNumbered
    <2> QED
      BY <1>1, <2>1 DEF Bought, PlaceOrder, OrderKey, Insert, Found
  <1>4. /\ status \in Status
        /\ t \in TicketInfos /\ IsServable(t) /\ t.status = status
        /\ t.train_id = id /\ t.date = day /\ t.from = from /\ t.to = to
        /\ t.seat_count = num
    BY DEF Bought, TicketInfo, TicketInfos, Status
  <1>5. /\ refund = Idle /\ refund' = Idle
        /\ UNCHANGED <<trains, released>>
        /\ id \in TrainIds /\ day \in Nat
    BY DEF Bought
  <1>6. \/ /\ status = "SUCCESS"
           /\ UNCHANGED <<pending_queue, clock>>
        \/ /\ status = "PENDING"
           /\ q \notin DOMAIN pending_queue
           /\ DOMAIN pending_queue' = DOMAIN pending_queue \cup {q}
           /\ pending_queue'[q] = e
           /\ \A r \in DOMAIN pending_queue : pending_queue'[r] = pending_queue[r]
           /\ clock' = clock + 1
    <2>1. q \notin DOMAIN pending_queue
      BY <1>1 DEF OrdersInv, TicketTypeOK, QueueMatchesOrders
    <2> QED
      BY <1>1, <2>1 DEF Bought, PlaceOrder, Insert, Found
  <1>7. e \in TicketSimpleInfos /\ clock \in Nat
    BY <1>2 DEF Bought, TicketSimpleInfos, OrdersInv, TicketTypeOK
  <1> HIDE DEF t, e, status
  <1>8. TicketTypeOK'
    <2>1. q \in TrainIds \X Int \X Nat
      BY <1>1, <1>5, <1>7
    <2> QED
      BY <1>2, <1>3, <1>4, <1>5, <1>6, <1>7, <2>1 DEF OrdersInv, TicketTypeOK
  <1>9. KeysNumbered'
    <2> SUFFICES ASSUME NEW v \in Users, NEW n \in Int
                 PROVE  <<v, n>> \in DOMAIN ticket_index' <=>
                          -n \in 0 .. OrderCount(v)' - 1
      BY DEF KeysNumbered
    <2>1. CASE v = u
      BY <1>1, <1>2, <1>3, <2>1 DEF OrdersInv, KeysNumbered
    <2>2. CASE v # u
      BY <1>1, <1>2, <1>3, <2>2 DEF OrdersInv, KeysNumbered
    <2> QED
      BY <2>1, <2>2
  <1>10. AllServable' /\ CopyIsCurrent'
    BY <1>3, <1>4, <1>5
    DEF OrdersInv, AllServable, IsServable, CopyIsCurrent
  <1>11. QueueMatchesOrders'
    <2>1. CASE status = "SUCCESS"
      BY <1>3, <1>4, <1>5, <1>6, <2>1
      DEF OrdersInv, QueueMatchesOrders, Waits, Queues, EntryOrder, OrderKey,
          ToDelete
    <2>2. CASE status = "PENDING"
      <3>1. ToDelete = {} /\ ToDelete' = {}
        BY <1>5 DEF ToDelete
      <3>2. EntryOrder(q)' = key /\ Queues(q, key)' /\ q[3] < clock'
        BY <1>1, <1>3, <1>4, <1>6, <1>7, <2>2
        DEF EntryOrder, OrderKey, Queues, e
      <3>3. \A r \in DOMAIN pending_queue :
              /\ EntryOrder(r)' = EntryOrder(r)
              /\ EntryOrder(r) \in DOMAIN ticket_index
              /\ Queues(r, EntryOrder(r))' /\ r[3] < clock'
        BY <1>3, <1>6, <1>7, <2>2
        DEF OrdersInv, TicketTypeOK, QueueMatchesOrders, EntryOrder, OrderKey,
            Queues
      <3>4. \A k \in DOMAIN ticket_index, r \in DOMAIN pending_queue :
              Queues(r, k)' <=> Queues(r, k)
        BY <1>3, <1>6, <2>2 DEF EntryOrder, OrderKey, Queues
      <3>5. \A k \in DOMAIN ticket_index' : Waits(k)' =>
              \E r \in DOMAIN pending_queue' : Queues(r, k)'
        <4> SUFFICES ASSUME NEW k \in DOMAIN ticket_index', Waits(k)'
                     PROVE  \E r \in DOMAIN pending_queue' : Queues(r, k)'
          OBVIOUS
        <4>1. CASE k = key
          BY <1>6, <2>2, <3>2, <4>1
        <4>2. CASE k # key
          <5>1. k \in DOMAIN ticket_index /\ Waits(k)
            BY <1>3, <4>2 DEF Waits
          <5>2. PICK r \in DOMAIN pending_queue : Queues(r, k)
            BY <5>1 DEF OrdersInv, QueueMatchesOrders
          <5> QED
            BY <1>6, <2>2, <3>4, <5>1, <5>2
        <4> QED
          BY <4>1, <4>2
      <3>6. ASSUME NEW r \in DOMAIN pending_queue'
            PROVE  /\ EntryOrder(r)' \in DOMAIN ticket_index'
                   /\ Queues(r, EntryOrder(r))' /\ r[3] < clock'
                   /\ ticket_index'[EntryOrder(r)'].status # "SUCCESS"
        BY <1>3, <1>4, <1>6, <2>2, <3>1, <3>2, <3>3
        DEF OrdersInv, QueueMatchesOrders
      <3>7. ASSUME NEW r1 \in DOMAIN pending_queue',
                   NEW r2 \in DOMAIN pending_queue',
                   EntryOrder(r1)' = EntryOrder(r2)'
            PROVE  r1 = r2
        BY <1>3, <1>6, <2>2, <3>2, <3>3, <3>7 DEF OrdersInv, QueueMatchesOrders
      <3> QED
        BY <3>1, <3>5, <3>6, <3>7 DEF QueueMatchesOrders
    <2> QED
      BY <1>6, <2>1, <2>2
  <1> QED
    BY <1>8, <1>9, <1>10, <1>11 DEF OrdersInv

(* An order the handlers write to changes its status only.                 *)
SameButStatus ==
  /\ DOMAIN ticket_index' = DOMAIN ticket_index
  /\ \A x \in DOMAIN ticket_index :
       /\ ticket_index'[x] \in TicketInfos
       /\ ticket_index'[x].train_id = ticket_index[x].train_id
       /\ ticket_index'[x].date = ticket_index[x].date
       /\ ticket_index'[x].from = ticket_index[x].from
       /\ ticket_index'[x].to = ticket_index[x].to
       /\ ticket_index'[x].seat_count = ticket_index[x].seat_count

LEMMA ChangeStatus ==
  ASSUME OrdersInv, NEW k \in DOMAIN ticket_index, NEW status \in Status,
         ticket_index' =
           SetValue(ticket_index, k, WithStatus(ticket_index[k], status))
  PROVE  /\ SameButStatus
         /\ ticket_index'[k].status = status
         /\ \A x \in DOMAIN ticket_index :
              x # k => ticket_index'[x] = ticket_index[x]
  BY DEF OrdersInv, TicketTypeOK, SetValue, WithStatus, TicketInfo, TicketInfos,
         SameButStatus

LEMMA SameOrders ==
  ASSUME OrdersInv, UNCHANGED ticket_index
  PROVE  SameButStatus
  BY DEF OrdersInv, TicketTypeOK, SameButStatus

LEMMA StatusKeepsOrders ==
  ASSUME OrdersInv, SameButStatus, UNCHANGED <<userVars, trains, released>>
  PROVE  KeysNumbered' /\ AllServable'
  <1>1. KeysNumbered'
    BY DEF OrdersInv, KeysNumbered, OrderCount, LoggedIn, Registered,
           SameButStatus, userVars
  <1>2. AllServable'
    BY DEF OrdersInv, AllServable, IsServable, SameButStatus
  <1> QED
    BY <1>1, <1>2

(* No handler but buy_ticket makes an order wait or adds to the queue: the *)
(* queue still matches the orders if the entries of the orders that go on  *)
(* waiting stay, and those of orders sold are marked for deletion.         *)
LEMMA QueueStep ==
  ASSUME OrdersInv, SameButStatus, clock' = clock,
         DOMAIN pending_queue' \subseteq DOMAIN pending_queue,
         \A q \in DOMAIN pending_queue' : pending_queue'[q] = pending_queue[q],
         \A x \in DOMAIN ticket_index : Waits(x)' => Waits(x),
         \A q \in DOMAIN pending_queue \ ToDelete :
           ticket_index'[EntryOrder(q)].status = "PENDING" =>
             q \in DOMAIN pending_queue' /\ q \notin ToDelete',
         \A q \in DOMAIN pending_queue' :
           ticket_index'[EntryOrder(q)].status = "SUCCESS" => q \in ToDelete'
  PROVE  QueueMatchesOrders'
  <1>1. \A q \in DOMAIN pending_queue' : EntryOrder(q)' = EntryOrder(q)
    BY DEF EntryOrder, OrderKey
  <1>2. \A q \in DOMAIN pending_queue', x \in DOMAIN ticket_index :
          Queues(q, x) => Queues(q, x)'
    BY <1>1 DEF Queues, SameButStatus
  <1>3. ASSUME NEW x \in DOMAIN ticket_index', Waits(x)'
        PROVE  \E q \in DOMAIN pending_queue' \ ToDelete' : Queues(q, x)'
    <2>1. x \in DOMAIN ticket_index /\ Waits(x)
      BY <1>3 DEF SameButStatus
    <2>2. PICK q \in DOMAIN pending_queue \ ToDelete : Queues(q, x)
      BY <2>1 DEF OrdersInv, QueueMatchesOrders
    <2>3. ticket_index'[EntryOrder(q)].status = "PENDING"
      BY <1>3, <2>2 DEF Queues, Waits
    <2> QED
      BY <1>2, <2>1, <2>2, <2>3
  <1>4. ASSUME NEW q \in DOMAIN pending_queue'
        PROVE  /\ EntryOrder(q)' \in DOMAIN ticket_index'
               /\ Queues(q, EntryOrder(q))' /\ q[3] < clock'
               /\ ticket_index'[EntryOrder(q)'].status = "SUCCESS" =>
                    q \in ToDelete'
               /\ \A r \in DOMAIN pending_queue' :
                    EntryOrder(q)' = EntryOrder(r)' => q = r
    <2>1. /\ EntryOrder(q) \in DOMAIN ticket_index
          /\ Queues(q, EntryOrder(q)) /\ q[3] < clock
          /\ \A r \in DOMAIN pending_queue :
               EntryOrder(q) = EntryOrder(r) => q = r
      BY <1>4 DEF OrdersInv, QueueMatchesOrders
    <2>2. Queues(q, EntryOrder(q))'
      BY <1>1, <1>2, <1>4, <2>1 DEF Queues, SameButStatus
    <2> QED
      BY <1>1, <1>4, <2>1, <2>2 DEF SameButStatus
  <1> QED
    BY <1>3, <1>4 DEF QueueMatchesOrders

(* -n from 1 up to the count of the session names an order.                *)
LEMMA OrderIsFound ==
  ASSUME BaseInv, OrdersInv, NEW u \in Users, LoggedIn(u),
         NEW n \in Nat \ {0}, n <= logged_in_users[u].order_count
  PROVE  /\ OrderNo(u, n) \in Int
         /\ OrderKey(u, OrderNo(u, n)) \in DOMAIN ticket_index
         /\ FoundTicket(u, OrderNo(u, n))
              = {ticket_index[OrderKey(u, OrderNo(u, n))]}
  <1>1. logged_in_users[u].order_count \in Nat
    BY DEF BaseInv, UserInv, UserTypeOK, LoggedIn, UserData
  <1>2. /\ OrderNo(u, n) \in 0 .. OrderCount(u) - 1
        /\ -(-OrderNo(u, n)) = OrderNo(u, n) /\ -OrderNo(u, n) \in Int
    BY <1>1 DEF OrderNo, OrderCount
  <1>3. OrderKey(u, OrderNo(u, n)) \in DOMAIN ticket_index
    BY <1>2 DEF OrdersInv, KeysNumbered, OrderKey
  <1> QED
    BY <1>2, <1>3 DEF FoundTicket, Found

LEMMA RefundWaitingOrders ==
  ASSUME BaseInv, OrdersInv, NEW u \in Users, NEW n \in Nat \ {0},
         RefundWaiting(u, n)
  PROVE  OrdersInv'
  <1>1. PICK k : k = OrderKey(u, OrderNo(u, n))
    OBVIOUS
  <1>2. /\ k \in DOMAIN ticket_index
        /\ ticket_index[k].status = "PENDING"
        /\ ticket_index' =
             SetValue(ticket_index, k, WithStatus(ticket_index[k], "REFUNDED"))
    BY <1>1, OrderIsFound DEF RefundWaiting
  <1>3. /\ refund = Idle
        /\ UNCHANGED <<userVars, trainVars, pending_queue, clock, refund>>
    BY DEF RefundWaiting
  <1>4. /\ SameButStatus /\ ticket_index'[k].status = "REFUNDED"
        /\ \A x \in DOMAIN ticket_index : x # k => ticket_index'[x] = ticket_index[x]
    BY <1>2, ChangeStatus DEF Status
  <1>5. KeysNumbered' /\ AllServable'
    BY <1>3, <1>4, StatusKeepsOrders DEF trainVars
  <1>6. TicketTypeOK'
    BY <1>3, <1>4 DEF OrdersInv, TicketTypeOK, SameButStatus
  <1>7. CopyIsCurrent'
    BY <1>3 DEF CopyIsCurrent
  <1>8. ToDelete = {} /\ ToDelete' = {}
    BY <1>3 DEF ToDelete
  <1>9. QueueMatchesOrders'
    <2>1. \A x \in DOMAIN ticket_index : Waits(x)' => Waits(x)
      BY <1>4 DEF Waits
    <2>2. \A q \in DOMAIN pending_queue :
            ticket_index'[EntryOrder(q)].status # "SUCCESS"
      BY <1>4, <1>8 DEF OrdersInv, QueueMatchesOrders
    <2> QED
      BY <1>3, <1>4, <1>8, <2>1, <2>2, QueueStep
  <1> QED
    BY <1>5, <1>6, <1>7, <1>9 DEF OrdersInv

LEMMA RefundSoldOrders ==
  ASSUME BaseInv, OrdersInv, NEW u \in Users, NEW n \in Nat \ {0},
         RefundSold(u, n)
  PROVE  OrdersInv'
  <1>1. PICK no, k : no = OrderNo(u, n) /\ k = OrderKey(u, no)
    OBVIOUS
  <1>2. /\ no \in Int
        /\ k \in DOMAIN ticket_index
        /\ ticket_index[k].status = "SUCCESS"
        /\ refund' = [user |-> u, order_no |-> no, ticket |-> ticket_index[k],
                      next |-> 0, to_delete |-> {}]
    BY <1>1, OrderIsFound DEF RefundSold
  <1>3. /\ refund = Idle
        /\ UNCHANGED <<userVars, trains, released, ticket_index, pending_queue,
                       clock>>
    BY DEF RefundSold
  <1>4. refund' \in Refunds
    BY <1>2 DEF OrdersInv, TicketTypeOK, Refunds
  <1>5. KeysNumbered' /\ AllServable'
    BY <1>3, SameOrders, StatusKeepsOrders
  <1>6. TicketTypeOK'
    BY <1>3, <1>4 DEF OrdersInv, TicketTypeOK
  <1>7. CopyIsCurrent'
    BY <1>1, <1>2, <1>3 DEF CopyIsCurrent, OrderKey
  <1>8. ToDelete = {} /\ ToDelete' = {}
    BY <1>2, <1>3 DEF ToDelete
  <1>9. QueueMatchesOrders'
    BY <1>3, <1>8
    DEF OrdersInv, QueueMatchesOrders, Waits, Queues, EntryOrder, OrderKey
  <1> QED
    BY <1>5, <1>6, <1>7, <1>9 DEF OrdersInv

(* Where the iterator stands, and what the locals are after it moved on.   *)
LEMMA ScanFacts ==
  ASSUME OrdersInv, NEW k, ScanAt(k)
  PROVE  /\ refund \in Refunds /\ refund # Idle /\ ToDelete = refund.to_delete
         /\ k \in DOMAIN pending_queue /\ k \in TrainIds \X Int \X Nat
         /\ EntryOrder(k) \in DOMAIN ticket_index
         /\ Queues(k, EntryOrder(k))
         /\ UNCHANGED <<userVars, trains, released, pending_queue, clock>>
  BY DEF OrdersInv, TicketTypeOK, QueueMatchesOrders, ScanAt, Remaining,
         ToDelete

LEMMA MoveOn ==
  ASSUME OrdersInv, NEW k, ScanAt(k),
         \/ refund' = [refund EXCEPT !.next = k[3] + 1]
         \/ refund' = [refund EXCEPT !.next = k[3] + 1, !.to_delete = @ \cup {k}]
  PROVE  /\ refund' \in Refunds /\ refund' # Idle
         /\ refund'.user = refund.user /\ refund'.order_no = refund.order_no
         /\ refund'.ticket = refund.ticket
         /\ refund'.next = k[3] + 1
         /\ ToDelete' = refund'.to_delete
  <1>1. refund \in Refunds /\ k \in TrainIds \X Int \X Nat
    BY ScanFacts
  <1>2. k[3] + 1 \in Nat
    BY <1>1
  <1>3. refund' \in Refunds
    <2>1. CASE refund' = [refund EXCEPT !.next = k[3] + 1]
      BY <1>1, <1>2, <2>1 DEF Refunds
    <2>2. CASE refund' =
                 [refund EXCEPT !.next = k[3] + 1, !.to_delete = @ \cup {k}]
      <3>1. refund.to_delete \cup {k} \in SUBSET (TrainIds \X Int \X Nat)
        BY <1>1 DEF Refunds
      <3>2. refund' =
              [user |-> refund.user, order_no |-> refund.order_no,
               ticket |-> refund.ticket, next |-> k[3] + 1,
               to_delete |-> refund.to_delete \cup {k}]
        BY <1>1, <2>2 DEF Refunds
      <3> QED
        BY <1>1, <1>2, <3>1, <3>2 DEF Refunds
    <2> QED
      BY <2>1, <2>2
  <1>4. refund' # Idle
    BY <1>3, TicketAssumption
  <1> QED
    BY <1>1, <1>3, <1>4 DEF Refunds, ToDelete

LEMMA SkipEntryOrders ==
  ASSUME OrdersInv, NEW k, SkipEntry(k)
  PROVE  OrdersInv'
  <1>1. /\ ScanAt(k) /\ refund' = [refund EXCEPT !.next = k[3] + 1]
        /\ UNCHANGED ticket_index
    BY DEF SkipEntry
  <1>2. ToDelete' = ToDelete
    BY <1>1, ScanFacts, MoveOn DEF Refunds
  <1>3. KeysNumbered' /\ AllServable'
    BY <1>1, ScanFacts, SameOrders, StatusKeepsOrders
  <1>4. TicketTypeOK'
    BY <1>1, ScanFacts, MoveOn DEF OrdersInv, TicketTypeOK
  <1>5. CopyIsCurrent'
    BY <1>1, ScanFacts, MoveOn DEF OrdersInv, CopyIsCurrent, OrderKey
  <1>6. QueueMatchesOrders'
    <2>1. UNCHANGED <<ticket_index, pending_queue, clock>>
      BY <1>1, ScanFacts
    <2> QED
      BY <1>2, <2>1
      DEF OrdersInv, QueueMatchesOrders, Waits, Queues, EntryOrder, OrderKey
  <1> QED
    BY <1>3, <1>4, <1>5, <1>6 DEF OrdersInv

LEMMA DropEntryOrders ==
  ASSUME OrdersInv, NEW k, DropEntry(k)
  PROVE  OrdersInv'
  <1>1. /\ ScanAt(k) /\ ticket_index[EntryOrder(k)].status # "PENDING"
        /\ refund' =
             [refund EXCEPT !.next = k[3] + 1, !.to_delete = @ \cup {k}]
        /\ UNCHANGED ticket_index
    BY DEF DropEntry
  <1>2. ToDelete' = ToDelete \cup {k}
    BY <1>1, ScanFacts, MoveOn DEF Refunds
  <1>3. SameButStatus /\ KeysNumbered' /\ AllServable'
    BY <1>1, ScanFacts, SameOrders, StatusKeepsOrders
  <1>4. TicketTypeOK'
    BY <1>1, ScanFacts, MoveOn DEF OrdersInv, TicketTypeOK
  <1>5. CopyIsCurrent'
    BY <1>1, ScanFacts, MoveOn DEF OrdersInv, CopyIsCurrent, OrderKey
  <1>6. QueueMatchesOrders'
    <2>1. \A x \in DOMAIN ticket_index : Waits(x)' => Waits(x)
      BY <1>1 DEF Waits
    <2>2. \A q \in DOMAIN pending_queue \ ToDelete :
            ticket_index'[EntryOrder(q)].status = "PENDING" => q \notin ToDelete'
      BY <1>1, <1>2
    <2>3. \A q \in DOMAIN pending_queue :
            ticket_index'[EntryOrder(q)].status = "SUCCESS" => q \in ToDelete'
      BY <1>1, <1>2 DEF OrdersInv, QueueMatchesOrders
    <2> QED
      BY <1>1, <1>3, <2>1, <2>2, <2>3, ScanFacts, QueueStep
  <1> QED
    BY <1>3, <1>4, <1>5, <1>6 DEF OrdersInv

LEMMA PromoteEntryOrders ==
  ASSUME OrdersInv, NEW k, PromoteEntry(k)
  PROVE  OrdersInv'
  <1>1. PICK o : o = EntryOrder(k)
    OBVIOUS
  <1>2. /\ ScanAt(k) /\ ticket_index[o].status = "PENDING"
        /\ refund' =
             [refund EXCEPT !.next = k[3] + 1, !.to_delete = @ \cup {k}]
        /\ ticket_index' =
             SetValue(ticket_index, o, WithStatus(ticket_index[o], "SUCCESS"))
    BY <1>1 DEF PromoteEntry
  <1>3. o \in DOMAIN ticket_index
    BY <1>1, <1>2, ScanFacts
  <1>4. /\ SameButStatus /\ ticket_index'[o].status = "SUCCESS"
        /\ \A x \in DOMAIN ticket_index : x # o => ticket_index'[x] = ticket_index[x]
    BY <1>2, <1>3, ChangeStatus DEF Status
  <1>5. ToDelete' = ToDelete \cup {k}
    BY <1>2, ScanFacts, MoveOn DEF Refunds
  <1>6. KeysNumbered' /\ AllServable'
    BY <1>2, <1>4, ScanFacts, StatusKeepsOrders
  <1>7. TicketTypeOK'
    BY <1>2, <1>4, ScanFacts, MoveOn DEF OrdersInv, TicketTypeOK, SameButStatus
  <1>8. CopyIsCurrent'
    <2>1. PICK c : c = OrderKey(refund.user, refund.order_no)
      OBVIOUS
    <2>2. /\ c \in DOMAIN ticket_index /\ ticket_index[c] = refund.ticket
          /\ refund.ticket.status = "SUCCESS"
      BY <1>2, <2>1, ScanFacts DEF OrdersInv, CopyIsCurrent
    <2>3. c # o
      BY <1>2, <2>2
    <2>4. c = OrderKey(refund.user, refund.order_no)'
      BY <1>2, <2>1, MoveOn DEF OrderKey
    <2> QED
      BY <1>2, <1>4, <2>2, <2>3, <2>4, MoveOn DEF CopyIsCurrent, SameButStatus
  <1>9. QueueMatchesOrders'
    <2>1. \A x \in DOMAIN ticket_index : Waits(x)' => Waits(x)
      BY <1>4 DEF Waits
    <2>2. \A q \in DOMAIN pending_queue :
            /\ EntryOrder(q) \in DOMAIN ticket_index
            /\ EntryOrder(q) = o => q = k
      BY <1>1, <1>2, ScanFacts DEF OrdersInv, QueueMatchesOrders
    <2>3. \A q \in DOMAIN pending_queue \ ToDelete :
            ticket_index'[EntryOrder(q)].status = "PENDING" => q \notin ToDelete'
      BY <1>1, <1>4, <1>5
    <2>4. \A q \in DOMAIN pending_queue :
            ticket_index'[EntryOrder(q)].status = "SUCCESS" => q \in ToDelete'
      BY <1>4, <1>5, <2>2 DEF OrdersInv, QueueMatchesOrders
    <2> QED
      BY <1>2, <1>4, <2>1, <2>3, <2>4, ScanFacts, QueueStep
  <1> QED
    BY <1>6, <1>7, <1>8, <1>9 DEF OrdersInv

LEMMA FinishRefundOrders ==
  ASSUME OrdersInv, FinishRefund
  PROVE  OrdersInv'
  <1>1. PICK o : o = OrderKey(refund.user, refund.order_no)
    OBVIOUS
  <1>2. /\ refund # Idle /\ refund' = Idle
        /\ DOMAIN pending_queue' = DOMAIN pending_queue \ ToDelete
        /\ \A q \in DOMAIN pending_queue' : pending_queue'[q] = pending_queue[q]
        /\ UNCHANGED <<userVars, trains, released, clock>>
    BY DEF FinishRefund, Remove, ToDelete, trainVars
  <1>3. /\ o \in DOMAIN ticket_index
        /\ ticket_index[o].status = "SUCCESS"
        /\ ticket_index' =
             SetValue(ticket_index, o, WithStatus(ticket_index[o], "REFUNDED"))
    BY <1>1 DEF OrdersInv, CopyIsCurrent, FinishRefund
  <1>4. /\ SameButStatus /\ ticket_index'[o].status = "REFUNDED"
        /\ \A x \in DOMAIN ticket_index : x # o => ticket_index'[x] = ticket_index[x]
    BY <1>3, ChangeStatus DEF Status
  <1>5. KeysNumbered' /\ AllServable'
    BY <1>2, <1>4, StatusKeepsOrders
  <1>6. TicketTypeOK'
    BY <1>2, <1>4 DEF OrdersInv, TicketTypeOK, SameButStatus
  <1>7. CopyIsCurrent' /\ ToDelete' = {}
    BY <1>2 DEF CopyIsCurrent, ToDelete
  <1>8. QueueMatchesOrders'
    <2>1. \A x \in DOMAIN ticket_index : Waits(x)' => Waits(x)
      BY <1>4 DEF Waits
    <2>2. \A q \in DOMAIN pending_queue' :
            ticket_index'[EntryOrder(q)].status # "SUCCESS"
      BY <1>2, <1>4 DEF OrdersInv, QueueMatchesOrders
    <2> QED
      BY <1>2, <1>4, <1>7, <2>1, <2>2, QueueStep
  <1> QED
    BY <1>5, <1>6, <1>7, <1>8 DEF OrdersInv

LEMMA CleanOrders ==
  ASSUME Clean
  PROVE  OrdersInv'
  <1>1. TicketTypeOK' /\ AllServable' /\ CopyIsCurrent' /\ QueueMatchesOrders'
    BY DEF Clean, TicketTypeOK, AllServable, CopyIsCurrent, QueueMatchesOrders,
           EmptyMap
  <1>2. KeysNumbered'
    BY DEF Clean, UserClean, KeysNumbered, OrderCount, LoggedIn, Registered,
           EmptyMap
  <1> QED
    BY <1>1, <1>2 DEF OrdersInv

LEMMA OrdersNext ==
  ASSUME ProperOrderNos, BaseInv, OrdersInv, [Next]_vars
  PROVE  OrdersInv'
  <1>1. CASE UserStep \/ Restart
    <2>1. \A v \in Users : OrderCount(v)' = OrderCount(v)
      BY <1>1, CommandKeepsCounts DEF UserStep, Restart, BaseInv
    <2> QED
      BY <1>1, <2>1, OrdersFrame DEF UserStep, Restart, trainVars
  <1>2. CASE TrainStep
    <2>1. \A v \in Users : OrderCount(v)' = OrderCount(v)
      BY <1>2 DEF TrainStep, OrderCount, LoggedIn, Registered, userVars
    <2> QED
      BY <1>2, <2>1, TrainCommandKeeps, OrdersFrame DEF TrainStep, BaseInv
  <1>3. CASE \E u \in Users, name \in TrainNames, date \in BuyDates,
                s, e \in Stations, num \in SeatNos, agree \in BOOLEAN :
               BuyTicket(u, name, date, s, e, num, agree)
    BY <1>3, BuyTicketPlaces, BuyTicketOrders
  <1>4. CASE \E u \in Users, n \in OrderNos : RefundWaiting(u, n)
    BY <1>4, RefundWaitingOrders DEF ProperOrderNos
  <1>5. CASE \E u \in Users, n \in OrderNos : RefundSold(u, n)
    BY <1>5, RefundSoldOrders DEF ProperOrderNos
  <1>6. CASE RefundStep
    BY <1>6, SkipEntryOrders, DropEntryOrders, PromoteEntryOrders,
       FinishRefundOrders
    DEF RefundStep
  <1>7. CASE Clean
    BY <1>7, CleanOrders
  <1>8. CASE UNCHANGED vars
    <2>1. \A v \in Users : OrderCount(v)' = OrderCount(v)
      BY <1>8 DEF vars, OrderCount, LoggedIn, Registered, userVars
    <2> QED
      BY <1>8, <2>1, OrdersFrame DEF vars, trainVars
  <1> QED
    BY <1>1, <1>2, <1>3, <1>4, <1>5, <1>6, <1>7, <1>8 DEF Next

LEMMA NumbersFollow ==
  ASSUME BaseInv, OrdersInv
  PROVE  OrdersNumbered
  <1> SUFFICES ASSUME NEW u \in Users
               PROVE  {k \in DOMAIN ticket_index : k[1] = u}
                        = {OrderKey(u, i) : i \in 0 .. OrderCount(u) - 1}
    BY DEF OrdersNumbered
  <1>1. OrderCount(u) \in Nat
    BY OrderCountNat DEF BaseInv
  <1>2. ASSUME NEW k \in DOMAIN ticket_index, k[1] = u
        PROVE  \E i \in 0 .. OrderCount(u) - 1 : k = OrderKey(u, i)
    <2>1. /\ k = <<u, k[2]>> /\ k[2] \in Int
      BY <1>2 DEF OrdersInv, TicketTypeOK
    <2>2. -k[2] \in 0 .. OrderCount(u) - 1 /\ -(-k[2]) = k[2]
      BY <2>1 DEF OrdersInv, KeysNumbered
    <2> QED
      BY <2>1, <2>2 DEF OrderKey
  <1>3. ASSUME NEW i \in 0 .. OrderCount(u) - 1
        PROVE  OrderKey(u, i) \in DOMAIN ticket_index /\ OrderKey(u, i)[1] = u
    <2>1. -i \in Int /\ -(-i) = i
      BY <1>1
    <2> QED
      BY <2>1 DEF OrdersInv, KeysNumbered, OrderKey
  <1> QED
    BY <1>2, <1>3

(* The first two layers hold together in every reachable state.            *)
LEMMA LayersTogether ==
  ASSUME ProperOrderNos
  PROVE  Spec => [](BaseInv /\ OrdersInv)
  <1>1. Init => BaseInv /\ OrdersInv
    BY BaseInit, OrdersInit
  <1>2. BaseInv /\ OrdersInv /\ [Next]_vars => (BaseInv /\ OrdersInv)'
    BY BaseNext, OrdersNext
  <1> QED
    BY <1>1, <1>2, PTL DEF Spec

(* Every part of the state keeps its type.                                 *)
THEOREM TypesHold ==
  ASSUME ProperOrderNos
  PROVE  Spec => []TypeOK
  <1>1. BaseInv /\ OrdersInv => TypeOK
    BY DEF BaseInv, UserInv, TrainInv, OrdersInv, TypeOK
  <1> QED
    BY <1>1, LayersTogether, PTL

(* The orders of a user are numbered without a gap, over logout, login,    *)
(* restart and clean, so that the next key is always free.                 *)
THEOREM NumbersHaveNoGap ==
  ASSUME ProperOrderNos
  PROVE  Spec => []OrdersNumbered
  <1>1. BaseInv /\ OrdersInv => OrdersNumbered
    BY NumbersFollow
  <1> QED
    BY <1>1, LayersTogether, PTL

(* The queue has exactly one entry for each order that waits, with the     *)
(* order's own train, day, stations and seats, and none for one sold.      *)
THEOREM QueueAndOrdersAgree ==
  ASSUME ProperOrderNos
  PROVE  Spec => []QueueMatchesOrders
  <1>1. BaseInv /\ OrdersInv => QueueMatchesOrders
    BY DEF OrdersInv
  <1> QED
    BY <1>1, LayersTogether, PTL

(* An order that is waiting or sold is one the train can serve: released,  *)
(* on sale that day, between two of its stations in order.                 *)
THEOREM OrdersStayServable ==
  ASSUME ProperOrderNos
  PROVE  Spec => []OrdersServable
  <1>1. BaseInv /\ OrdersInv => OrdersServable
    BY DEF OrdersInv, AllServable, OrdersServable
  <1> QED
    BY <1>1, LayersTogether, PTL

-----------------------------------------------------------------------------
(* The third layer: the seats.                                             *)
SeatsNat ==
  \A k \in DOMAIN vacancy : \A j \in DOMAIN vacancy[k] : vacancy[k][j] \in Nat

(* The places of a range of legs of one day are one after the other.       *)
LEMMA SlotsFollow ==
  ASSUME TrainInv, NEW id \in released, NEW day \in Int, NEW from \in Int,
         NEW to \in Int,
         NEW j \in Slot(id, day, from) .. Slot(id, day, to - 1)
  PROVE  \E i \in from .. to - 1 : j = Slot(id, day, i)
  <1>1. trains[id].station_count \in Nat
    BY DEF TrainInv, TrainTypeOK, IsTrainInput
  <1>2. (day % DATE_BATCH_SIZE) \in Nat
    BY BatchOfDay
  <1>3. PICK base \in Int :
          base = (day % DATE_BATCH_SIZE) * (trains[id].station_count - 1)
    BY <1>1, <1>2
  <1>4. \A i \in Int : Slot(id, day, i) = base + i
    BY <1>3 DEF Slot
  <1>5. j \in Int /\ base + from <= j /\ j <= base + (to - 1)
    BY <1>3, <1>4
  <1>6. j - base \in from .. to - 1 /\ j = base + (j - base)
    BY <1>5
  <1> QED
    BY <1>4, <1>6

(* Only seats that are there are taken.                                    *)
LEMMA TakeSeats ==
  ASSUME TrainInv, SeatsNat, NEW id \in released, NEW day \in Int,
         NEW from \in Int, NEW to \in Int, NEW num \in Nat,
         Fits(id, day, from, to, num),
         vacancy' = ReduceVacancy(id, day, from, to, num)
  PROVE  SeatsNat'
  <1> DEFINE row == vacancy[GetVacancyId(id, day)]
  <1> SUFFICES ASSUME NEW k \in DOMAIN vacancy', NEW j \in DOMAIN vacancy'[k]
               PROVE  vacancy'[k][j] \in Nat
    BY DEF SeatsNat
  <1>1. k \in DOMAIN vacancy
    BY DEF ReduceVacancy
  <1>2. CASE k = GetVacancyId(id, day)
    <2>1. /\ j \in DOMAIN row /\ row[j] \in Nat
          /\ vacancy'[k][j] =
               IF j \in Slot(id, day, from) .. Slot(id, day, to - 1)
                 THEN row[j] - num ELSE row[j]
      BY <1>1, <1>2 DEF ReduceVacancy, SeatsNat
    <2>2. ASSUME j \in Slot(id, day, from) .. Slot(id, day, to - 1)
          PROVE  row[j] >= num
      BY <2>2, SlotsFollow DEF Fits, GetVacancy
    <2> QED
      BY <2>1, <2>2
  <1>3. CASE k # GetVacancyId(id, day)
    BY <1>1, <1>3 DEF ReduceVacancy, SeatsNat
  <1> QED
    BY <1>2, <1>3

(* Seats given back are added.                                             *)
LEMMA ReturnSeats ==
  ASSUME SeatsNat, NEW id, NEW day, NEW from, NEW to, NEW num \in Nat,
         vacancy' = ReduceVacancy(id, day, from, to, -num)
  PROVE  SeatsNat'
  <1> SUFFICES ASSUME NEW k \in DOMAIN vacancy', NEW j \in DOMAIN vacancy'[k]
               PROVE  vacancy'[k][j] \in Nat
    BY DEF SeatsNat
  <1>1. k \in DOMAIN vacancy /\ j \in DOMAIN vacancy[k] /\ vacancy[k][j] \in Nat
    BY DEF ReduceVacancy, SeatsNat
  <1>2. vacancy'[k][j] \in {vacancy[k][j], vacancy[k][j] - (-num)}
    BY <1>1 DEF ReduceVacancy
  <1> QED
    BY <1>1, <1>2

LEMMA ReleaseSeats ==
  ASSUME TrainInv, SeatsNat, TrainCommand
  PROVE  SeatsNat'
  <1>1. ASSUME NEW name \in TrainNames, ReleaseTrain(name)
        PROVE  SeatsNat'
    <2>1. PICK id \in DOMAIN trains : id = train_id_index[name]
      BY <1>1 DEF ReleaseTrain, Found, TrainInv, TrainTypeOK
    <2>2. trains[id].seat_count \in Nat
      BY <2>1 DEF TrainInv, TrainTypeOK, IsTrainInput
    <2>3. \A k \in DOMAIN vacancy' :
            \/ vacancy'[k] = FullRow(trains[id])
            \/ k \in DOMAIN vacancy /\ vacancy'[k] = vacancy[k]
      BY <1>1, <2>1 DEF ReleaseTrain
    <2>4. \A j \in DOMAIN FullRow(trains[id]) : FullRow(trains[id])[j] \in Nat
      BY <2>2 DEF FullRow
    <2> QED
      BY <2>3, <2>4 DEF SeatsNat
  <1>2. CASE UNCHANGED vacancy
    BY <1>2 DEF SeatsNat
  <1> QED
    BY <1>1, <1>2 DEF TrainCommand, AddTrain, DeleteTrain

(* An entry asks for what its order asks for, on a train on sale.          *)
LEMMA EntryServable ==
  ASSUME BaseInv, OrdersInv, NEW k \in DOMAIN pending_queue
  PROVE  LET e == pending_queue[k]
         IN /\ k[1] \in released
            /\ k[2] \in trains[k[1]].date_beg .. trains[k[1]].date_end
            /\ e.from \in Nat /\ e.to \in Nat /\ e.from < e.to
            /\ e.to < trains[k[1]].station_count
            /\ e.seat_count \in Nat
  <1>1. /\ EntryOrder(k) \in DOMAIN ticket_index
        /\ Queues(k, EntryOrder(k))
        /\ IsServable(ticket_index[EntryOrder(k)])
        /\ pending_queue[k] \in TicketSimpleInfos /\ k \in TrainIds \X Int \X Nat
    BY DEF OrdersInv, AllServable, QueueMatchesOrders, TicketTypeOK
  <1>2. /\ k[1] \in released /\ k[2] \in Int
        /\ trains[k[1]].date_beg <= k[2] /\ k[2] <= trains[k[1]].date_end
        /\ pending_queue[k].from < pending_queue[k].to
        /\ pending_queue[k].to < trains[k[1]].station_count
    BY <1>1 DEF Queues, IsServable
  <1>3. IsTrainInput(trains[k[1]])
    BY <1>2 DEF BaseInv, TrainInv, TrainTypeOK
  <1>4. k[2] \in trains[k[1]].date_beg .. trains[k[1]].date_end
    BY <1>2, <1>3 DEF IsTrainInput
  <1> QED
    BY <1>1, <1>2, <1>4 DEF TicketSimpleInfos

LEMMA SeatsNext ==
  ASSUME ProperOrderNos, BaseInv, OrdersInv, SeatsNat, [Next]_vars
  PROVE  SeatsNat'
  <1>1. CASE UNCHANGED vacancy
    BY <1>1 DEF SeatsNat
  <1>2. CASE TrainStep
    BY <1>2, ReleaseSeats DEF TrainStep, BaseInv
  <1>3. ASSUME NEW u \in Users, NEW name \in TrainNames, NEW date \in BuyDates,
               NEW s \in Stations, NEW e \in Stations, NEW num \in SeatNos,
               NEW agree \in BOOLEAN,
               BuyTicket(u, name, date, s, e, num, agree)
        PROVE  SeatsNat'
    <2>1. PICK id, day, from, to : Bought(u, id, day, from, to, num)
      BY <1>3, BuyTicketPlaces
    <2>2. id \in released
      BY <2>1 DEF Bought, IsServable, TicketInfo, Status
    <2>3. CASE Fits(id, day, from, to, num)
      BY <2>1, <2>2, <2>3, TakeSeats DEF Bought, PlaceOrder, BaseInv
    <2>4. CASE ~Fits(id, day, from, to, num)
      BY <2>1, <2>4 DEF Bought, PlaceOrder, SeatsNat
    <2> QED
      BY <2>3, <2>4
  <1>4. ASSUME NEW u \in Users, NEW n \in OrderNos, RefundSold(u, n)
        PROVE  SeatsNat'
    <2>1. PICK t \in TicketInfos :
            vacancy' = ReduceVacancy(t.train_id, t.date, t.from, t.to,
                                     -t.seat_count)
      BY <1>4, OrderIsFound
      DEF RefundSold, ProperOrderNos, OrdersInv, TicketTypeOK
    <2> QED
      BY <2>1, ReturnSeats DEF TicketInfos
  <1>5. ASSUME NEW k \in DOMAIN pending_queue, PromoteEntry(k)
        PROVE  SeatsNat'
    BY <1>5, EntryServable, TakeSeats DEF PromoteEntry, EntryFits, BaseInv
  <1>6. CASE Clean
    BY <1>6 DEF Clean, TrainClean, SeatsNat, EmptyMap
  <1> QED
    BY <1>1, <1>2, <1>3, <1>4, <1>5, <1>6
    DEF Next, UserStep, RefundWaiting, RefundStep, SkipEntry, DropEntry,
        FinishRefund, Restart, vars, trainVars

(* No leg of any day ever has fewer than no seats, whatever is bought,     *)
(* promoted from the queue and refunded: ReduceVacancy's assertion, which  *)
(* the release build does not evaluate.                                    *)
THEOREM SeatsNeverNegative ==
  ASSUME ProperOrderNos
  PROVE  Spec => []NoOversell
  <1>1. Init => SeatsNat
    BY DEF Init, TrainInit, SeatsNat, EmptyMap
  <1>2. BaseInv /\ OrdersInv /\ SeatsNat /\ [Next]_vars => SeatsNat'
    BY SeatsNext
  <1>3. SeatsNat => NoOversell
    BY DEF SeatsNat, NoOversell
  <1> QED
    BY <1>1, <1>2, <1>3, LayersTogether, PTL DEF Spec
-----------------------------------------------------------------------------
(* The life of an order.  Every handler that writes to an order knows its  *)
(* status: the refund's copy is current, and the scan looks before it      *)
(* writes.                                                                 *)
KeepsOrders ==
  \A k \in DOMAIN ticket_index :
    /\ Found(ticket_index', k)
    /\ ticket_index'[k] = WithStatus(ticket_index[k], ticket_index'[k].status)
    /\ ticket_index[k].status = "REFUNDED" =>
         ticket_index'[k].status = "REFUNDED"
    /\ ticket_index[k].status = "SUCCESS" =>
         ticket_index'[k].status \in {"SUCCESS", "REFUNDED"}

LEMMA SameRecord ==
  ASSUME NEW t \in TicketInfos, NEW r \in TicketInfos,
         r.train_id = t.train_id, r.date = t.date, r.from = t.from,
         r.to = t.to, r.seat_count = t.seat_count
  PROVE  r = WithStatus(t, r.status)
  BY DEF TicketInfos, WithStatus, TicketInfo

LEMMA SameOrdersKept ==
  ASSUME OrdersInv,
         \A k \in DOMAIN ticket_index :
           k \in DOMAIN ticket_index' /\ ticket_index'[k] = ticket_index[k]
  PROVE  KeepsOrders
  <1> SUFFICES ASSUME NEW k \in DOMAIN ticket_index
               PROVE  ticket_index[k]
                        = WithStatus(ticket_index[k], ticket_index[k].status)
    BY DEF KeepsOrders, Found
  <1>1. ticket_index[k] \in TicketInfos
    BY DEF OrdersInv, TicketTypeOK
  <1> QED
    BY <1>1, SameRecord

LEMMA WrittenOrderKept ==
  ASSUME OrdersInv, NEW o \in DOMAIN ticket_index, NEW status \in Status,
         ticket_index' =
           SetValue(ticket_index, o, WithStatus(ticket_index[o], status)),
         \/ ticket_index[o].status = "PENDING"
         \/ ticket_index[o].status = "SUCCESS" /\ status = "REFUNDED"
  PROVE  KeepsOrders
  <1>1. /\ SameButStatus /\ ticket_index'[o].status = status
        /\ \A x \in DOMAIN ticket_index :
             x # o => ticket_index'[x] = ticket_index[x]
    BY ChangeStatus
  <1> SUFFICES ASSUME NEW k \in DOMAIN ticket_index
               PROVE  /\ k \in DOMAIN ticket_index'
                      /\ ticket_index'[k]
                           = WithStatus(ticket_index[k], ticket_index'[k].status)
                      /\ ticket_index[k].status = "REFUNDED" =>
                           ticket_index'[k].status = "REFUNDED"
                      /\ ticket_index[k].status = "SUCCESS" =>
                           ticket_index'[k].status \in {"SUCCESS", "REFUNDED"}
    BY DEF KeepsOrders, Found
  <1>2. ticket_index[k] \in TicketInfos
    BY DEF OrdersInv, TicketTypeOK
  <1>3. /\ k \in DOMAIN ticket_index'
        /\ ticket_index'[k]
             = WithStatus(ticket_index[k], ticket_index'[k].status)
    BY <1>1, <1>2, SameRecord DEF SameButStatus
  <1> QED
    BY <1>1, <1>3

LEMMA NextKeepsOrders ==
  ASSUME ProperOrderNos, BaseInv, OrdersInv, [Next]_vars,
         profiles' # [u \in Users |-> NoUser]
  PROVE  KeepsOrders
  <1>1. CASE UNCHANGED ticket_index
    BY <1>1, SameOrdersKept
  <1>2. ASSUME NEW u \in Users, NEW name \in TrainNames, NEW date \in BuyDates,
               NEW s \in Stations, NEW e \in Stations, NEW num \in SeatNos,
               NEW agree \in BOOLEAN,
               BuyTicket(u, name, date, s, e, num, agree)
        PROVE  KeepsOrders
    <2>1. PICK key, t : ticket_index' = Insert(ticket_index, key, t)
      BY <1>2 DEF BuyTicket, PlaceOrder
    <2> QED
      BY <2>1, SameOrdersKept DEF Insert, Found
  <1>3. ASSUME NEW u \in Users, NEW n \in OrderNos, RefundWaiting(u, n)
        PROVE  KeepsOrders
    <2>1. PICK k : k = OrderKey(u, OrderNo(u, n))
      OBVIOUS
    <2>2. /\ k \in DOMAIN ticket_index
          /\ ticket_index[k].status = "PENDING"
          /\ ticket_index' =
               SetValue(ticket_index, k, WithStatus(ticket_index[k], "REFUNDED"))
      BY <1>3, <2>1, OrderIsFound DEF RefundWaiting, ProperOrderNos
    <2> QED
      BY <2>2, WrittenOrderKept DEF Status
  <1>4. ASSUME NEW k, PromoteEntry(k)
        PROVE  KeepsOrders
    <2>1. EntryOrder(k) \in DOMAIN ticket_index
      BY <1>4, ScanFacts DEF PromoteEntry
    <2> QED
      BY <1>4, <2>1, WrittenOrderKept DEF PromoteEntry, Status
  <1>5. CASE FinishRefund
    <2>1. PICK o : o = OrderKey(refund.user, refund.order_no)
      OBVIOUS
    <2>2. /\ o \in DOMAIN ticket_index
          /\ ticket_index[o].status = "SUCCESS"
          /\ ticket_index' =
               SetValue(ticket_index, o, WithStatus(ticket_index[o], "REFUNDED"))
      BY <1>5, <2>1 DEF OrdersInv, CopyIsCurrent, FinishRefund
    <2> QED
      BY <2>2, WrittenOrderKept DEF Status
  <1> QED
    BY <1>1, <1>2, <1>3, <1>4, <1>5
    DEF Next, UserStep, TrainStep, RefundSold, RefundStep, SkipEntry, DropEntry,
        Restart, Clean, UserClean, ticketVars, vars

(* An order keeps everything but its status, a refunded order stays        *)
(* refunded although the handler writes back a copy it took before the     *)
(* scan, a sold one never waits again, and none disappears but by clean.   *)
THEOREM OrdersGoOneWay ==
  ASSUME ProperOrderNos
  PROVE  Spec => OrderLifecycle
  <1>1. BaseInv /\ OrdersInv /\ [Next]_vars =>
          [profiles' # [u \in Users |-> NoUser] => KeepsOrders]_vars
    BY NextKeepsOrders
  <1> QED
    BY <1>1, LayersTogether, PTL DEF Spec, OrderLifecycle, KeepsOrders
-----------------------------------------------------------------------------
(* What taking or giving back seats does to the vacancies.                 *)
OnSaleDay(id, date) == date \in trains[id].date_beg .. trains[id].date_end
IsLeg(id, i) == i \in 0 .. trains[id].station_count - 2

LEMMA SlotsAscend ==
  ASSUME TrainInv, NEW id \in released, NEW day \in Int
  PROVE  \E base \in Int : \A i \in Int : Slot(id, day, i) = base + i
  <1>1. trains[id].station_count \in Nat
    BY DEF TrainInv, TrainTypeOK, IsTrainInput
  <1>2. (day % DATE_BATCH_SIZE) \in Nat
    BY BatchOfDay
  <1>3. PICK base \in Int :
          base = (day % DATE_BATCH_SIZE) * (trains[id].station_count - 1)
    BY <1>1, <1>2
  <1> QED
    BY <1>3 DEF Slot

(* The seats of the range's legs on the one day change, and no others.     *)
LEMMA VacancyChange ==
  ASSUME TrainInv, NEW id \in released, NEW day, OnSaleDay(id, day),
         NEW from \in Nat, NEW to \in Nat, from < to,
         to < trains[id].station_count, NEW num \in Int,
         vacancy' = ReduceVacancy(id, day, from, to, num),
         UNCHANGED trains,
         NEW x \in released, NEW date, OnSaleDay(x, date),
         NEW i, IsLeg(x, i)
  PROVE  GetVacancy(x, date, i)'
           = IF x = id /\ date = day /\ i \in from .. to - 1
               THEN GetVacancy(x, date, i) - num ELSE GetVacancy(x, date, i)
  <1>1. /\ IsTrainInput(trains[id]) /\ IsTrainInput(trains[x])
        /\ day \in Nat /\ date \in Nat /\ day \in Int /\ date \in Int /\ i \in Int
    <2>1. IsTrainInput(trains[id]) /\ IsTrainInput(trains[x])
      BY DEF TrainInv, TrainTypeOK
    <2>2. /\ trains[id].date_beg \in Nat /\ trains[id].date_end \in Nat
          /\ trains[x].date_beg \in Nat /\ trains[x].date_end \in Nat
          /\ trains[x].station_count \in Nat
      BY <2>1 DEF IsTrainInput
    <2> QED
      BY <2>1, <2>2 DEF OnSaleDay, IsLeg
  <1>2. PICK v, w, j : /\ v = GetVacancyId(id, day) /\ w = GetVacancyId(x, date)
                       /\ j = Slot(x, date, i)
    OBVIOUS
  <1>3. /\ w \in DOMAIN vacancy /\ j \in DOMAIN vacancy[w]
        /\ v \in DOMAIN vacancy
    <2>1. to - 1 \in 0 .. trains[id].station_count - 2
      BY <1>1 DEF IsTrainInput
    <2> QED
      BY <1>2, <2>1, PlaceExists DEF OnSaleDay, IsLeg
  <1>4. /\ GetVacancy(x, date, i) = vacancy[w][j]
        /\ GetVacancy(x, date, i)' = vacancy'[w][j]
    BY <1>2 DEF GetVacancy, GetVacancyId, Slot
  <1>5. \A k \in DOMAIN vacancy : k # v => vacancy'[k] = vacancy[k]
    BY <1>2 DEF ReduceVacancy
  <1>6. CASE w # v
    <2>1. ~(x = id /\ date = day)
      BY <1>2, <1>6
    <2> QED
      BY <1>3, <1>4, <1>5, <1>6, <2>1
  <1>7. CASE w = v
    <2>1. x = id
      BY <1>2, <1>7 DEF GetVacancyId
    <2>2. vacancy'[w][j] =
            IF j \in Slot(id, day, from) .. Slot(id, day, to - 1)
              THEN vacancy[w][j] - num ELSE vacancy[w][j]
      BY <1>2, <1>3, <1>7 DEF ReduceVacancy
    <2>3. j \in Slot(id, day, from) .. Slot(id, day, to - 1)
            <=> date = day /\ i \in from .. to - 1
      <3>1. ASSUME j \in Slot(id, day, from) .. Slot(id, day, to - 1)
            PROVE  date = day /\ i \in from .. to - 1
        <4>1. PICK l \in from .. to - 1 : j = Slot(id, day, l)
          BY <1>1, <3>1, SlotsFollow
        <4>2. l \in 0 .. trains[id].station_count - 2
          BY <1>1 DEF IsTrainInput
        <4>3. /\ GetVacancyId(id, date) = GetVacancyId(id, day)
              /\ Slot(id, date, i) = Slot(id, day, l)
              /\ i \in 0 .. trains[id].station_count - 2
          BY <1>2, <1>7, <2>1, <4>1 DEF IsLeg
        <4>4. date = day /\ i = l
          BY <1>1, <4>2, <4>3, PlacesDiffer
        <4> QED
          BY <4>1, <4>4
      <3>2. ASSUME date = day, i \in from .. to - 1
            PROVE  j \in Slot(id, day, from) .. Slot(id, day, to - 1)
        <4>1. PICK base \in Int : \A l \in Int : Slot(id, day, l) = base + l
          BY <1>1, SlotsAscend
        <4> QED
          BY <1>1, <1>2, <2>1, <3>2, <4>1
      <3> QED
        BY <3>1, <3>2
    <2> QED
      BY <1>4, <2>1, <2>2, <2>3
  <1> QED
    BY <1>6, <1>7

(* The vacancies of a day and leg on sale are numbers.                     *)
LEMMA VacancyNat ==
  ASSUME TrainInv, SeatsNat, NEW x \in released, NEW date, OnSaleDay(x, date),
         NEW i, IsLeg(x, i)
  PROVE  GetVacancy(x, date, i) \in Nat
  BY PlaceExists DEF OnSaleDay, IsLeg, SeatsNat, GetVacancy

(* A servable order asks for legs and a day on sale.                       *)
LEMMA ServableFacts ==
  ASSUME TrainInv, NEW t \in TicketInfos, IsServable(t)
  PROVE  /\ t.train_id \in released /\ OnSaleDay(t.train_id, t.date)
         /\ t.from \in Nat /\ t.to \in Nat /\ t.from < t.to
         /\ t.to < trains[t.train_id].station_count
         /\ t.seat_count \in 1 .. trains[t.train_id].seat_count
         /\ t.seat_count \in Nat /\ t.seat_count \in Int
         /\ \A i \in t.from .. t.to - 1 : IsLeg(t.train_id, i)
  <1>1. /\ t.train_id \in released /\ t.date \in Int /\ t.from \in Nat
        /\ t.to \in Nat /\ t.seat_count \in Nat
    BY DEF IsServable, TicketInfos
  <1>2. IsTrainInput(trains[t.train_id])
    BY <1>1 DEF TrainInv, TrainTypeOK
  <1> QED
    BY <1>1, <1>2 DEF IsServable, OnSaleDay, IsLeg, IsTrainInput
-----------------------------------------------------------------------------
(* The orders that wait.  An order that waits and could have its seats is  *)
(* one the iterator has not reached: outside a scan there is none.         *)
Passed(q) == refund # Idle => q \notin Remaining

PassedDontFit ==
  \A q \in DOMAIN pending_queue :
    Waits(EntryOrder(q)) /\ Passed(q) => ~EntryFits(q)

LEMMA WaitersWait ==
  ASSUME BaseInv, OrdersInv, PassedDontFit
  PROVE  NobodyWaitsForFreeSeats
  <1> SUFFICES ASSUME refund = Idle, NEW k \in DOMAIN ticket_index, Waits(k)
               PROVE  ~OrderFits(k)
    BY DEF NobodyWaitsForFreeSeats
  <1>1. PICK q \in DOMAIN pending_queue : Queues(q, k)
    BY DEF OrdersInv, QueueMatchesOrders
  <1>2. ~EntryFits(q)
    BY <1>1 DEF PassedDontFit, Passed, Queues
  <1> QED
    BY <1>1, <1>2 DEF EntryFits, OrderFits, Queues

(* A range of legs fits no better when no leg of it has more seats.        *)
LEMMA FitsNoBetter ==
  ASSUME TrainInv, SeatsNat, NEW x \in released,
         NEW date, OnSaleDay(x, date),
         NEW from \in Nat, NEW to \in Nat, to < trains[x].station_count,
         NEW num \in Nat, ~Fits(x, date, from, to, num),
         \A i \in from .. to - 1 :
           IsLeg(x, i) => /\ GetVacancy(x, date, i)' \in Int
                          /\ GetVacancy(x, date, i)' <= GetVacancy(x, date, i)
  PROVE  ~Fits(x, date, from, to, num)'
  <1>1. PICK i \in from .. to - 1 : ~(GetVacancy(x, date, i) >= num)
    BY DEF Fits
  <1>2. IsLeg(x, i)
    <2>1. trains[x].station_count \in Nat
      BY DEF TrainInv, TrainTypeOK, IsTrainInput
    <2> QED
      BY <2>1 DEF IsLeg
  <1>3. GetVacancy(x, date, i) \in Nat
    BY <1>2, VacancyNat
  <1>4. /\ GetVacancy(x, date, i)' \in Int
        /\ GetVacancy(x, date, i)' <= GetVacancy(x, date, i)
    BY <1>2
  <1>5. ~(GetVacancy(x, date, i)' >= num)
    BY <1>1, <1>3, <1>4
  <1> QED
    BY <1>5 DEF Fits

(* What an entry asks for, in the form the lemmas on vacancies take it.    *)
LEMMA EntryFacts ==
  ASSUME BaseInv, OrdersInv, NEW q \in DOMAIN pending_queue
  PROVE  LET e == pending_queue[q]
         IN /\ q[1] \in released /\ OnSaleDay(q[1], q[2])
            /\ e.from \in Nat /\ e.to \in Nat /\ e.from < e.to
            /\ e.to < trains[q[1]].station_count
            /\ e.seat_count \in Nat /\ e.seat_count \in Int
  BY EntryServable DEF OnSaleDay

(* Steps that neither queue an order nor give back a seat.                 *)
LEMMA NoBetterStep ==
  ASSUME BaseInv, OrdersInv, SeatsNat, PassedDontFit,
         DOMAIN pending_queue' \subseteq DOMAIN pending_queue,
         \A q \in DOMAIN pending_queue' : pending_queue'[q] = pending_queue[q],
         \A x \in DOMAIN ticket_index : Waits(x)' => Waits(x),
         \A q \in DOMAIN pending_queue' :
           Waits(EntryOrder(q)) /\ Waits(EntryOrder(q))' /\ Passed(q)' =>
             Passed(q) \/ ~EntryFits(q),
         \A q \in DOMAIN pending_queue' : \A i :
           Passed(q)' /\ IsLeg(q[1], i) =>
             /\ GetVacancy(q[1], q[2], i)' \in Int
             /\ GetVacancy(q[1], q[2], i)' <= GetVacancy(q[1], q[2], i)
  PROVE  PassedDontFit'
  <1> SUFFICES ASSUME NEW q \in DOMAIN pending_queue',
                      Waits(EntryOrder(q))', Passed(q)'
               PROVE  ~EntryFits(q)'
    BY DEF PassedDontFit
  <1>1. /\ q \in DOMAIN pending_queue /\ pending_queue'[q] = pending_queue[q]
        /\ EntryOrder(q)' = EntryOrder(q)
    BY DEF EntryOrder, OrderKey
  <1>2. EntryOrder(q) \in DOMAIN ticket_index
    BY <1>1 DEF OrdersInv, QueueMatchesOrders
  <1>3. Waits(EntryOrder(q))
    BY <1>1, <1>2 DEF Waits
  <1>4. ~EntryFits(q)
    BY <1>1, <1>3 DEF PassedDontFit
  <1> DEFINE e == pending_queue[q]
  <1>5. ~Fits(q[1], q[2], e.from, e.to, e.seat_count)'
    BY <1>1, <1>4, EntryFacts, FitsNoBetter DEF EntryFits, BaseInv
  <1> QED
    BY <1>1, <1>5 DEF EntryFits
(* How the vacancies of a day and leg on sale move: down when seats are    *)
(* taken, not at all when they are given back to another train or day.     *)
LEMMA SeatsTakenLower ==
  ASSUME TrainInv, SeatsNat, NEW id \in released, NEW day, OnSaleDay(id, day),
         NEW from \in Nat, NEW to \in Nat, from < to,
         to < trains[id].station_count, NEW num \in Nat,
         vacancy' = ReduceVacancy(id, day, from, to, num), UNCHANGED trains,
         NEW x \in released, NEW date, OnSaleDay(x, date), NEW i, IsLeg(x, i)
  PROVE  /\ GetVacancy(x, date, i)' \in Int
         /\ GetVacancy(x, date, i)' <= GetVacancy(x, date, i)
  <1>1. GetVacancy(x, date, i)'
          = IF x = id /\ date = day /\ i \in from .. to - 1
              THEN GetVacancy(x, date, i) - num ELSE GetVacancy(x, date, i)
    BY VacancyChange
  <1>2. GetVacancy(x, date, i) \in Nat
    BY VacancyNat
  <1> QED
    BY <1>1, <1>2

LEMMA SeatsElsewhereStay ==
  ASSUME TrainInv, NEW x \in released, NEW date, OnSaleDay(x, date),
         NEW i, IsLeg(x, i),
         trains'[x] = trains[x],
         \A k \in DOMAIN vacancy :
           k \in DOMAIN vacancy' /\ vacancy'[k] = vacancy[k]
  PROVE  GetVacancy(x, date, i)' = GetVacancy(x, date, i)
  <1>1. GetVacancyId(x, date) \in DOMAIN vacancy
    BY PlaceExists DEF OnSaleDay, IsLeg
  <1> QED
    BY <1>1 DEF GetVacancy, GetVacancyId, Slot

(* The one entry the iterator passes is the one it stood at.               *)
LEMMA MovedPast ==
  ASSUME OrdersInv, NEW k, ScanAt(k),
         \/ refund' = [refund EXCEPT !.next = k[3] + 1]
         \/ refund' = [refund EXCEPT !.next = k[3] + 1, !.to_delete = @ \cup {k}],
         NEW q \in DOMAIN pending_queue, Passed(q)'
  PROVE  Passed(q) \/ q = k
  <1> SUFFICES ASSUME q \in Remaining
               PROVE  q = k
    BY DEF Passed
  <1>1. /\ refund' # Idle /\ refund'.ticket = refund.ticket
        /\ refund'.next = k[3] + 1 /\ pending_queue' = pending_queue
    BY MoveOn, ScanFacts
  <1>2. q \notin Remaining'
    BY <1>1 DEF Passed
  <1>3. /\ k \in Remaining /\ k[3] <= q[3]
        /\ q \in TrainIds \X Int \X Nat /\ k \in TrainIds \X Int \X Nat
    BY DEF ScanAt, Remaining, OrdersInv, TicketTypeOK
  <1>4. /\ q[1] = k[1] /\ q[2] = k[2]
        /\ ~(q[3] >= k[3] + 1)
    BY <1>1, <1>2, <1>3 DEF Remaining
  <1>5. q[3] = k[3]
    BY <1>3, <1>4
  <1> QED
    BY <1>3, <1>4, <1>5

(* Steps that leave vacancies and the trains of the queue as they are.     *)
LEMMA SameSeatsStep ==
  ASSUME BaseInv, OrdersInv, SeatsNat, PassedDontFit,
         DOMAIN pending_queue' \subseteq DOMAIN pending_queue,
         \A q \in DOMAIN pending_queue' : pending_queue'[q] = pending_queue[q],
         \A x \in DOMAIN ticket_index : Waits(x)' => Waits(x),
         \A q \in DOMAIN pending_queue' :
           Waits(EntryOrder(q)) /\ Waits(EntryOrder(q))' /\ Passed(q)' =>
             Passed(q) \/ ~EntryFits(q),
         \A x \in released : trains'[x] = trains[x],
         \A k \in DOMAIN vacancy :
           k \in DOMAIN vacancy' /\ vacancy'[k] = vacancy[k]
  PROVE  PassedDontFit'
  <1>1. ASSUME NEW q \in DOMAIN pending_queue', NEW i, IsLeg(q[1], i)
        PROVE  /\ GetVacancy(q[1], q[2], i)' \in Int
               /\ GetVacancy(q[1], q[2], i)' <= GetVacancy(q[1], q[2], i)
    <2>1. q[1] \in released /\ OnSaleDay(q[1], q[2])
      BY EntryFacts
    <2>2. GetVacancy(q[1], q[2], i) \in Nat
      BY <1>1, <2>1, VacancyNat DEF BaseInv
    <2>3. GetVacancy(q[1], q[2], i)' = GetVacancy(q[1], q[2], i)
      BY <1>1, <2>1, SeatsElsewhereStay DEF BaseInv
    <2> QED
      BY <2>2, <2>3
  <1> QED
    BY <1>1, NoBetterStep
LEMMA BuyTicketPassed ==
  ASSUME BaseInv, OrdersInv, SeatsNat, PassedDontFit,
         NEW u \in Users, NEW id, NEW day, NEW from, NEW to, NEW num,
         Bought(u, id, day, from, to, num)
  PROVE  PassedDontFit'
  <1>1. /\ refund = Idle /\ refund' = Idle
        /\ UNCHANGED <<trains, released>>
        /\ id \in released /\ OnSaleDay(id, day)
        /\ from \in Nat /\ to \in Nat /\ from < to
        /\ to < trains[id].station_count /\ num \in Nat
    <2>1. /\ TicketInfo("SUCCESS", id, day, from, to, num) \in TicketInfos
          /\ IsServable(TicketInfo("SUCCESS", id, day, from, to, num))
      BY DEF Bought, TicketInfo, TicketInfos, Status
    <2> QED
      BY <2>1, ServableFacts DEF Bought, BaseInv, TicketInfo
  <1>2. \A x \in DOMAIN ticket_index :
          x \in DOMAIN ticket_index' /\ ticket_index'[x] = ticket_index[x]
    BY DEF Bought, PlaceOrder, Insert, Found
  <1>3. CASE Fits(id, day, from, to, num)
    <2>1. /\ vacancy' = ReduceVacancy(id, day, from, to, num)
          /\ UNCHANGED pending_queue
      BY <1>3 DEF Bought, PlaceOrder
    <2>2. \A q \in DOMAIN pending_queue' : \A i :
            Passed(q)' /\ IsLeg(q[1], i) =>
              /\ GetVacancy(q[1], q[2], i)' \in Int
              /\ GetVacancy(q[1], q[2], i)' <= GetVacancy(q[1], q[2], i)
      BY <1>1, <2>1, EntryFacts, SeatsTakenLower DEF BaseInv
    <2>3. \A x \in DOMAIN ticket_index : Waits(x)' => Waits(x)
      BY <1>2 DEF Waits
    <2>4. \A q \in DOMAIN pending_queue' : Passed(q)
      BY <1>1 DEF Passed
    <2> QED
      BY <2>1, <2>2, <2>3, <2>4, NoBetterStep
  <1>4. CASE ~Fits(id, day, from, to, num)
    <2>1. PICK new : new = <<id, day, clock>>
      OBVIOUS
    <2>2. PICK no : no = logged_in_users[u].order_count
      OBVIOUS
    <2>3. /\ UNCHANGED vacancy
          /\ pending_queue' = Insert(pending_queue, new,
               [from |-> from, to |-> to, order_no |-> no,
                seat_count |-> num, user_id |-> u])
      BY <1>4, <2>1, <2>2 DEF Bought, PlaceOrder
    <2>4. new \notin DOMAIN pending_queue
      BY <2>1 DEF OrdersInv, TicketTypeOK, QueueMatchesOrders
    <2> SUFFICES ASSUME NEW q \in DOMAIN pending_queue', Waits(EntryOrder(q))'
                 PROVE  ~EntryFits(q)'
      BY DEF PassedDontFit
    <2>5. CASE q = new
      <3>1. EntryFits(q)' <=> Fits(id, day, from, to, num)
        BY <1>1, <2>1, <2>3, <2>4, <2>5
        DEF EntryFits, Fits, GetVacancy, GetVacancyId, Slot, Insert, Found
      <3> QED
        BY <1>4, <3>1
    <2>6. CASE q # new
      <3>1. q \in DOMAIN pending_queue /\ pending_queue'[q] = pending_queue[q]
        BY <2>3, <2>4, <2>6 DEF Insert, Found
      <3>2. EntryOrder(q)' = EntryOrder(q) /\ EntryOrder(q) \in DOMAIN ticket_index
        BY <3>1 DEF EntryOrder, OrderKey, OrdersInv, QueueMatchesOrders
      <3>3. Waits(EntryOrder(q))
        BY <1>2, <3>2 DEF Waits
      <3>4. ~EntryFits(q)
        BY <1>1, <3>1, <3>3 DEF PassedDontFit, Passed
      <3> QED
        BY <1>1, <2>3, <3>1, <3>4
        DEF EntryFits, Fits, GetVacancy, GetVacancyId, Slot
    <2> QED
      BY <2>5, <2>6
  <1> QED
    BY <1>3, <1>4

(* The seats of the refunded order come back to its train and day, all     *)
(* entries of which the iterator has before it.                            *)
LEMMA RefundSoldPassed ==
  ASSUME BaseInv, OrdersInv, SeatsNat, PassedDontFit,
         NEW u \in Users, NEW n \in Nat \ {0}, RefundSold(u, n)
  PROVE  PassedDontFit'
  <1>1. PICK no, k : no = OrderNo(u, n) /\ k = OrderKey(u, no)
    OBVIOUS
  <1>2. PICK t \in TicketInfos : k \in DOMAIN ticket_index /\ t = ticket_index[k]
    BY <1>1, OrderIsFound DEF RefundSold, OrdersInv, TicketTypeOK
  <1>3. /\ refund' = [user |-> u, order_no |-> no, ticket |-> t,
                      next |-> 0, to_delete |-> {}]
        /\ vacancy' = ReduceVacancy(t.train_id, t.date, t.from, t.to,
                                    -t.seat_count)
    BY <1>1, <1>2, OrderIsFound DEF RefundSold
  <1>4. /\ refund = Idle
        /\ UNCHANGED <<trains, released, ticket_index, pending_queue>>
    BY DEF RefundSold
  <1>5. /\ t.train_id \in released /\ OnSaleDay(t.train_id, t.date)
        /\ t.from \in Nat /\ t.to \in Nat /\ t.from < t.to
        /\ t.to < trains[t.train_id].station_count /\ -t.seat_count \in Int
    BY <1>2, ServableFacts DEF OrdersInv, AllServable, BaseInv
  <1>6. refund' # Idle /\ refund'.ticket = t /\ refund'.next = 0
    <2>1. refund' \in Refunds
      BY <1>1, <1>2, <1>3, OrderIsFound DEF Refunds, RefundSold
    <2> QED
      BY <1>3, <2>1, TicketAssumption
  <1>7. ASSUME NEW q \in DOMAIN pending_queue', Passed(q)', NEW i,
               IsLeg(q[1], i)
        PROVE  /\ GetVacancy(q[1], q[2], i)' \in Int
               /\ GetVacancy(q[1], q[2], i)' <= GetVacancy(q[1], q[2], i)
    <2>1. q[1] \in released /\ OnSaleDay(q[1], q[2])
      BY <1>4, EntryFacts
    <2>2. GetVacancy(q[1], q[2], i) \in Nat
      BY <1>7, <2>1, VacancyNat DEF BaseInv
    <2>3. ~(q[1] = t.train_id /\ q[2] = t.date)
      <3>1. q[3] >= 0
        BY <1>4 DEF OrdersInv, TicketTypeOK
      <3>2. q \notin Remaining'
        BY <1>6, <1>7 DEF Passed
      <3> QED
        BY <1>6, <3>1, <3>2 DEF Remaining
    <2>4. GetVacancy(q[1], q[2], i)' = GetVacancy(q[1], q[2], i)
      BY <1>3, <1>4, <1>5, <1>7, <2>1, <2>3, VacancyChange DEF BaseInv
    <2> QED
      BY <2>2, <2>4
  <1>8. /\ \A x \in DOMAIN ticket_index : Waits(x)' => Waits(x)
        /\ \A q \in DOMAIN pending_queue : Passed(q)
    BY <1>4 DEF Waits, Passed
  <1> QED
    BY <1>4, <1>7, <1>8, NoBetterStep

LEMMA PromoteEntryPassed ==
  ASSUME BaseInv, OrdersInv, SeatsNat, PassedDontFit, NEW k, PromoteEntry(k)
  PROVE  PassedDontFit'
  <1>1. PICK o : o = EntryOrder(k)
    OBVIOUS
  <1>2. /\ ScanAt(k) /\ o \in DOMAIN ticket_index
        /\ k \in DOMAIN pending_queue
        /\ UNCHANGED <<trains, released, pending_queue>>
        /\ refund' =
             [refund EXCEPT !.next = k[3] + 1, !.to_delete = @ \cup {k}]
        /\ ticket_index' =
             SetValue(ticket_index, o, WithStatus(ticket_index[o], "SUCCESS"))
    BY <1>1, ScanFacts DEF PromoteEntry
  <1>3. /\ SameButStatus /\ ticket_index'[o].status = "SUCCESS"
        /\ \A x \in DOMAIN ticket_index : x # o => ticket_index'[x] = ticket_index[x]
    BY <1>2, ChangeStatus DEF Status
  <1>4. \A x \in DOMAIN ticket_index : Waits(x)' => Waits(x)
    BY <1>3 DEF Waits
  <1>5. \A q \in DOMAIN pending_queue' :
          Waits(EntryOrder(q))' /\ Passed(q)' => Passed(q)
    BY <1>1, <1>2, <1>3, MovedPast DEF Waits, EntryOrder, OrderKey
  <1>6. \A q \in DOMAIN pending_queue' : \A i :
          Passed(q)' /\ IsLeg(q[1], i) =>
            /\ GetVacancy(q[1], q[2], i)' \in Int
            /\ GetVacancy(q[1], q[2], i)' <= GetVacancy(q[1], q[2], i)
    BY <1>2, EntryFacts, SeatsTakenLower DEF PromoteEntry, BaseInv
  <1> QED
    BY <1>2, <1>4, <1>5, <1>6, NoBetterStep

LEMMA PassedNext ==
  ASSUME ProperOrderNos, BaseInv, OrdersInv, SeatsNat, PassedDontFit,
         [Next]_vars
  PROVE  PassedDontFit'
  <1>1. CASE \/ UNCHANGED vars
             \/ UserStep
             \/ Restart
    <2>1. UNCHANGED <<trainVars, ticketVars>>
      BY <1>1 DEF UserStep, Restart, vars
    <2> QED
      BY <2>1
      DEF PassedDontFit, Passed, Remaining, Waits, EntryOrder, OrderKey,
          EntryFits, Fits, GetVacancy, GetVacancyId, Slot, trainVars, ticketVars
  <1>2. CASE TrainStep
    <2>1. refund = Idle /\ UNCHANGED ticketVars
      BY <1>2 DEF TrainStep
    <2>2. /\ \A x \in released : trains'[x] = trains[x]
          /\ \A k \in DOMAIN vacancy :
               k \in DOMAIN vacancy' /\ vacancy'[k] = vacancy[k]
      BY <1>2, TrainCommandKeeps DEF TrainStep, BaseInv
    <2> QED
      BY <2>1, <2>2, SameSeatsStep DEF ticketVars, Waits, Passed
  <1>3. CASE \E u \in Users, name \in TrainNames, date \in BuyDates,
                s, e \in Stations, num \in SeatNos, agree \in BOOLEAN :
               BuyTicket(u, name, date, s, e, num, agree)
    BY <1>3, BuyTicketPlaces, BuyTicketPassed
  <1>4. ASSUME NEW u \in Users, NEW n \in OrderNos, RefundWaiting(u, n)
        PROVE  PassedDontFit'
    <2>1. PICK k : k = OrderKey(u, OrderNo(u, n))
      OBVIOUS
    <2>2. /\ k \in DOMAIN ticket_index
          /\ ticket_index' =
               SetValue(ticket_index, k, WithStatus(ticket_index[k], "REFUNDED"))
      BY <1>4, <2>1, OrderIsFound DEF RefundWaiting, ProperOrderNos
    <2>3. \A x \in DOMAIN ticket_index : Waits(x)' => Waits(x)
      BY <2>2, ChangeStatus DEF Status, Waits
    <2> QED
      BY <1>4, <2>3, SameSeatsStep DEF RefundWaiting, Passed, trainVars
  <1>5. CASE \E u \in Users, n \in OrderNos : RefundSold(u, n)
    BY <1>5, RefundSoldPassed DEF ProperOrderNos
  <1>6. ASSUME NEW k \in DOMAIN pending_queue, SkipEntry(k)
        PROVE  PassedDontFit'
    <2>1. /\ ScanAt(k) /\ ~EntryFits(k) /\ UNCHANGED <<vacancy, ticket_index>>
          /\ refund' = [refund EXCEPT !.next = k[3] + 1]
          /\ UNCHANGED <<trains, pending_queue>>
      BY <1>6, ScanFacts DEF SkipEntry
    <2> QED
      BY <2>1, MovedPast, SameSeatsStep DEF Waits
  <1>7. ASSUME NEW k \in DOMAIN pending_queue, DropEntry(k)
        PROVE  PassedDontFit'
    <2>1. /\ ScanAt(k) /\ ~Waits(EntryOrder(k))
          /\ UNCHANGED <<vacancy, ticket_index>>
          /\ refund' =
               [refund EXCEPT !.next = k[3] + 1, !.to_delete = @ \cup {k}]
          /\ UNCHANGED <<trains, pending_queue>>
      BY <1>7, ScanFacts DEF DropEntry, Waits
    <2> QED
      BY <2>1, MovedPast, SameSeatsStep DEF Waits
  <1>8. ASSUME NEW k \in DOMAIN pending_queue, PromoteEntry(k)
        PROVE  PassedDontFit'
    BY <1>8, PromoteEntryPassed
  <1>9. CASE FinishRefund
    <2>1. PICK o : o = OrderKey(refund.user, refund.order_no)
      OBVIOUS
    <2>2. /\ o \in DOMAIN ticket_index
          /\ ticket_index' =
               SetValue(ticket_index, o, WithStatus(ticket_index[o], "REFUNDED"))
      BY <1>9, <2>1 DEF OrdersInv, CopyIsCurrent, FinishRefund
    <2>3. \A x \in DOMAIN ticket_index : Waits(x)' => Waits(x)
      BY <2>2, ChangeStatus DEF Status, Waits
    <2>4. /\ DOMAIN pending_queue' \subseteq DOMAIN pending_queue
          /\ \A q \in DOMAIN pending_queue' : pending_queue'[q] = pending_queue[q]
          /\ UNCHANGED <<trains, vacancy>>
          /\ \A q \in DOMAIN pending_queue : Passed(q)
      BY <1>9 DEF FinishRefund, Remove, Passed, trainVars
    <2> QED
      BY <2>3, <2>4, SameSeatsStep
  <1>10. CASE Clean
    BY <1>10 DEF Clean, PassedDontFit, EmptyMap
  <1> QED
    BY <1>1, <1>2, <1>3, <1>4, <1>5, <1>6, <1>7, <1>8, <1>9, <1>10
    DEF Next, RefundStep

(* The first three layers and the queue hold together.                     *)
LEMMA QueueIsServed ==
  ASSUME ProperOrderNos
  PROVE  Spec => [](BaseInv /\ OrdersInv /\ SeatsNat /\ PassedDontFit)
  <1>1. Init => SeatsNat /\ PassedDontFit
    BY DEF Init, TrainInit, SeatsNat, PassedDontFit, EmptyMap
  <1>2. BaseInv /\ OrdersInv /\ SeatsNat /\ PassedDontFit /\ [Next]_vars =>
          SeatsNat' /\ PassedDontFit'
    BY SeatsNext, PassedNext
  <1> QED
    BY <1>1, <1>2, LayersTogether, PTL DEF Spec

(* Between commands no order waits for seats that are there: what buy_     *)
(* ticket reads of the vacancies and what the refund's scan has promoted   *)
(* leave no waiting order that could be served.                            *)
THEOREM WaitersCannotBeServed ==
  ASSUME ProperOrderNos
  PROVE  Spec => []NobodyWaitsForFreeSeats
  <1>1. BaseInv /\ OrdersInv /\ PassedDontFit => NobodyWaitsForFreeSeats
    BY WaitersWait
  <1> QED
    BY <1>1, QueueIsServed, PTL

(* The step that gives a waiting order its seats is the scan's, and every  *)
(* entry of the train and day before the iterator has been passed.         *)
ServedInTurn ==
  \A q \in DOMAIN pending_queue :
    /\ EntryOrder(q) \in DOMAIN ticket_index'
    /\ Waits(EntryOrder(q))
    /\ ticket_index'[EntryOrder(q)].status = "SUCCESS"
    => \A r \in DOMAIN pending_queue :
         /\ r[1] = q[1] /\ r[2] = q[2] /\ r[3] < q[3]
         /\ Waits(EntryOrder(r))
         => ~EntryFits(r)

LEMMA NextServesInTurn ==
  ASSUME ProperOrderNos, BaseInv, OrdersInv, PassedDontFit, [Next]_vars
  PROVE  ServedInTurn
  <1> SUFFICES ASSUME NEW q \in DOMAIN pending_queue,
                      EntryOrder(q) \in DOMAIN ticket_index',
                      Waits(EntryOrder(q)),
                      ticket_index'[EntryOrder(q)].status = "SUCCESS",
                      NEW r \in DOMAIN pending_queue,
                      r[1] = q[1], r[2] = q[2], r[3] < q[3],
                      Waits(EntryOrder(r))
               PROVE  ~EntryFits(r)
    BY DEF ServedInTurn
  <1>1. EntryOrder(q) \in DOMAIN ticket_index
    BY DEF OrdersInv, QueueMatchesOrders
  <1>2. ticket_index'[EntryOrder(q)] # ticket_index[EntryOrder(q)]
    BY DEF Waits
  <1>3. ASSUME NEW u \in Users, NEW name \in TrainNames, NEW date \in BuyDates,
               NEW s \in Stations, NEW e \in Stations, NEW num \in SeatNos,
               NEW agree \in BOOLEAN,
               BuyTicket(u, name, date, s, e, num, agree)
        PROVE  FALSE
    BY <1>1, <1>2, <1>3 DEF BuyTicket, PlaceOrder, Insert, Found
  <1>4. ASSUME NEW u \in Users, NEW n \in OrderNos, RefundWaiting(u, n)
        PROVE  FALSE
    <2>1. PICK k : k = OrderKey(u, OrderNo(u, n))
      OBVIOUS
    <2>2. /\ k \in DOMAIN ticket_index
          /\ ticket_index' =
               SetValue(ticket_index, k, WithStatus(ticket_index[k], "REFUNDED"))
      BY <1>4, <2>1, OrderIsFound DEF RefundWaiting, ProperOrderNos
    <2> QED
      BY <1>1, <1>2, <2>2, ChangeStatus DEF Status
  <1>5. CASE FinishRefund
    <2>1. PICK o : o = OrderKey(refund.user, refund.order_no)
      OBVIOUS
    <2>2. /\ o \in DOMAIN ticket_index
          /\ ticket_index' =
               SetValue(ticket_index, o, WithStatus(ticket_index[o], "REFUNDED"))
      BY <1>5, <2>1 DEF OrdersInv, CopyIsCurrent, FinishRefund
    <2> QED
      BY <1>1, <1>2, <2>2, ChangeStatus DEF Status
  <1>6. ASSUME NEW k \in DOMAIN pending_queue, PromoteEntry(k)
        PROVE  ~EntryFits(r)
    <2>1. /\ ScanAt(k) /\ EntryOrder(k) \in DOMAIN ticket_index
          /\ ticket_index' = SetValue(ticket_index, EntryOrder(k),
               WithStatus(ticket_index[EntryOrder(k)], "SUCCESS"))
      BY <1>6, ScanFacts DEF PromoteEntry
    <2>2. EntryOrder(q) = EntryOrder(k)
      BY <1>1, <1>2, <2>1, ChangeStatus DEF Status
    <2>3. q = k
      BY <2>2 DEF OrdersInv, QueueMatchesOrders
    <2>4. r \notin Remaining
      <3>1. /\ q[3] \in Nat /\ r[3] \in Nat
        BY DEF OrdersInv, TicketTypeOK
      <3> QED
        BY <2>1, <2>3, <3>1 DEF ScanAt
    <2> QED
      BY <2>4 DEF PassedDontFit, Passed
  <1> QED
    BY <1>1, <1>2, <1>3, <1>4, <1>5, <1>6
    DEF Next, UserStep, TrainStep, RefundSold, RefundStep, SkipEntry, DropEntry,
        Restart, Clean, EmptyMap, ticketVars, vars

(* First come, first served: an order that waits is given seats only when  *)
(* no order of the same train and day that has waited longer could have    *)
(* had them.                                                               *)
THEOREM QueueInTurn ==
  ASSUME ProperOrderNos
  PROVE  Spec => FirstComeFirstServed
  <1>1. BaseInv /\ OrdersInv /\ PassedDontFit /\ [Next]_vars =>
          [ServedInTurn]_vars
    BY NextServesInTurn
  <1> QED
    BY <1>1, QueueIsServed, PTL DEF Spec, FirstComeFirstServed, ServedInTurn
-----------------------------------------------------------------------------
(* The seats that are held, as the seats of a set of orders.               *)
SeatsOf(H, c, m) == {ks \in H \X (1 .. m) : ks[2] <= c[ks[1]]}

LEMMA SeatsOfFinite ==
  ASSUME NEW H, IsFiniteSet(H), NEW c, NEW m \in Nat
  PROVE  /\ IsFiniteSet(SeatsOf(H, c, m))
         /\ Cardinality(SeatsOf(H, c, m)) \in Nat
  <1>1. IsFiniteSet(1 .. m)
    BY FS_Interval
  <1>2. IsFiniteSet(H \X (1 .. m))
    BY <1>1, FS_Product
  <1>3. SeatsOf(H, c, m) \in SUBSET (H \X (1 .. m))
    BY DEF SeatsOf
  <1>4. IsFiniteSet(SeatsOf(H, c, m))
    BY <1>2, <1>3, FS_Subset
  <1> QED
    BY <1>4, FS_CardinalityType

(* One order more holds its own seats more.                                *)
LEMMA OneHolderMore ==
  ASSUME NEW H, IsFiniteSet(H), NEW c, NEW m \in Nat,
         NEW k, k \notin H, c[k] \in 1 .. m
  PROVE  Cardinality(SeatsOf(H \cup {k}, c, m))
           = Cardinality(SeatsOf(H, c, m)) + c[k]
  <1>1. PICK n \in 1 .. m : n = c[k]
    OBVIOUS
  <1> DEFINE own == {k} \X (1 .. n)
             A == SeatsOf(H, c, m)
             B == SeatsOf(H \cup {k}, c, m)
  <1>2. \A x, j : /\ <<x, j>> \in own <=> x = k /\ j \in 1 .. n
                  /\ <<x, j>> \in A <=> x \in H /\ j \in 1 .. m /\ j <= c[x]
                  /\ <<x, j>> \in B <=>
                       x \in H \cup {k} /\ j \in 1 .. m /\ j <= c[x]
    BY DEF SeatsOf
  <1>3. /\ \A p \in A : p = <<p[1], p[2]>>
        /\ \A p \in B : p = <<p[1], p[2]>>
        /\ \A p \in own : p = <<p[1], p[2]>>
    BY DEF SeatsOf
  <1>4. \A j : j \in 1 .. n <=> j \in 1 .. m /\ j <= c[k]
    BY <1>1
  <1> HIDE DEF own, A, B
  <1>5. \A x, j : <<x, j>> \in B <=> <<x, j>> \in A \/ <<x, j>> \in own
    BY <1>2, <1>4
  <1>6. B = A \cup own
    BY <1>3, <1>5
  <1>7. A \cap own = {}
    BY <1>2, <1>3
  <1>8. IsFiniteSet(own) /\ Cardinality(own) = n
    <2>1. n \in Int /\ n >= 1 /\ 1 \in Int
      OBVIOUS
    <2>2. IsFiniteSet(1 .. n) /\ Cardinality(1 .. n) = n
      BY <2>1, FS_Interval
    <2>3. IsFiniteSet({k}) /\ Cardinality({k}) = 1
      BY FS_Singleton
    <2>4. IsFiniteSet(own) /\ Cardinality(own) = 1 * n
      BY <2>2, <2>3, FS_Product DEF own
    <2> QED
      BY <2>1, <2>4
  <1>9. IsFiniteSet(A) /\ Cardinality(A) \in Nat
    BY SeatsOfFinite DEF A
  <1>10. Cardinality(B) = Cardinality(A) + Cardinality(own) - Cardinality({})
    BY <1>6, <1>7, <1>8, <1>9, FS_Union
  <1>11. Cardinality(B) = Cardinality(A) + n
    BY <1>8, <1>9, <1>10, FS_EmptySet
  <1> QED
    BY <1>1, <1>11 DEF A, B

LEMMA SameSeats ==
  ASSUME NEW H, NEW c, NEW d, NEW m, \A k \in H : c[k] = d[k]
  PROVE  SeatsOf(H, c, m) = SeatsOf(H, d, m)
  BY DEF SeatsOf

Holders(id, date, i) ==
  {k \in DOMAIN ticket_index : HoldsSeats(k, id, date, i)}

Counts == [k \in DOMAIN ticket_index |-> ticket_index[k].seat_count]

LEMMA HeldByHolders ==
  \A id, date, i : HeldSeats(id, date, i) =
    SeatsOf(Holders(id, date, i), Counts, trains[id].seat_count)
  BY DEF HeldSeats, SeatsOf, Holders, Counts

FewOrders == IsFiniteSet(DOMAIN ticket_index)

(* The seats of a day and leg: those that are free and those held.         *)
Balanced(id, date, i) ==
  GetVacancy(id, date, i) + Cardinality(HeldSeats(id, date, i))
    = trains[id].seat_count

LEMMA BalanceFacts ==
  ASSUME TrainInv, SeatsNat, FewOrders, NEW id \in released, NEW date,
         OnSaleDay(id, date), NEW i, IsLeg(id, i)
  PROVE  /\ GetVacancy(id, date, i) \in Nat
         /\ trains[id].seat_count \in Nat
         /\ IsFiniteSet(Holders(id, date, i))
         /\ Cardinality(HeldSeats(id, date, i)) \in Nat
  <1>1. trains[id].seat_count \in Nat
    BY DEF TrainInv, TrainTypeOK, IsTrainInput
  <1>2. IsFiniteSet(Holders(id, date, i))
    <2>1. Holders(id, date, i) \in SUBSET (DOMAIN ticket_index)
      BY DEF Holders
    <2> QED
      BY <2>1, FS_Subset DEF FewOrders
  <1> QED
    BY <1>1, <1>2, VacancyNat, SeatsOfFinite, HeldByHolders

(* A step that changes neither vacancy nor holders of a day and leg.       *)
LEMMA BalanceKept ==
  ASSUME NEW id, NEW date, NEW i, Balanced(id, date, i),
         trains'[id] = trains[id],
         GetVacancy(id, date, i)' = GetVacancy(id, date, i),
         Holders(id, date, i)' = Holders(id, date, i),
         \A k \in Holders(id, date, i) :
           ticket_index'[k].seat_count = ticket_index[k].seat_count
  PROVE  Balanced(id, date, i)'
  <1>1. HeldSeats(id, date, i)'
          = SeatsOf(Holders(id, date, i)', Counts', trains'[id].seat_count)
    BY DEF HeldSeats, SeatsOf, Holders, Counts
  <1>2. \A k \in Holders(id, date, i) : Counts'[k] = Counts[k]
    <2>1. \A k \in Holders(id, date, i) :
            k \in DOMAIN ticket_index /\ k \in DOMAIN ticket_index'
      BY DEF Holders
    <2> QED
      BY <2>1 DEF Counts
  <1>3. HeldSeats(id, date, i)' = HeldSeats(id, date, i)
    BY <1>1, <1>2, SameSeats, HeldByHolders
  <1> QED
    BY <1>3 DEF Balanced
(* An order gets its seats.                                                *)
LEMMA BalanceTaken ==
  ASSUME TrainInv, SeatsNat, FewOrders, NEW id \in released, NEW date,
         OnSaleDay(id, date), NEW i, IsLeg(id, i), Balanced(id, date, i),
         trains'[id] = trains[id],
         NEW o \in DOMAIN ticket_index', o \notin Holders(id, date, i),
         Holders(id, date, i)' = Holders(id, date, i) \cup {o},
         \A k \in Holders(id, date, i) :
           ticket_index'[k].seat_count = ticket_index[k].seat_count,
         NEW n \in 1 .. trains[id].seat_count, n = ticket_index'[o].seat_count,
         GetVacancy(id, date, i)' = GetVacancy(id, date, i) - n
  PROVE  Balanced(id, date, i)'
  <1>1. PICK H, m, c, d : /\ H = Holders(id, date, i)
                          /\ m = trains[id].seat_count
                          /\ c = Counts /\ d = Counts'
    OBVIOUS
  <1>2. /\ GetVacancy(id, date, i) \in Nat /\ m \in Nat /\ IsFiniteSet(H)
        /\ Cardinality(HeldSeats(id, date, i)) \in Nat
        /\ HeldSeats(id, date, i) = SeatsOf(H, c, m)
    BY <1>1, BalanceFacts, HeldByHolders
  <1>3. HeldSeats(id, date, i)' = SeatsOf(H \cup {o}, d, m)
    BY <1>1 DEF HeldSeats, SeatsOf, Holders, Counts
  <1>4. d[o] = n /\ \A k \in H : c[k] = d[k]
    <2>1. \A k \in H : k \in DOMAIN ticket_index /\ k \in DOMAIN ticket_index'
      BY <1>1 DEF Holders
    <2> QED
      BY <1>1, <2>1 DEF Counts
  <1>5. SeatsOf(H, c, m) = SeatsOf(H, d, m)
    BY <1>4, SameSeats
  <1>6. Cardinality(SeatsOf(H \cup {o}, d, m)) = Cardinality(SeatsOf(H, d, m)) + n
    BY <1>1, <1>2, <1>4, OneHolderMore
  <1>7. Cardinality(HeldSeats(id, date, i)')
          = Cardinality(HeldSeats(id, date, i)) + n
    BY <1>2, <1>3, <1>5, <1>6
  <1> QED
    BY <1>1, <1>2, <1>7 DEF Balanced

(* The seats of an order come back: the step above, the other way round.   *)
LEMMA BalanceReturned ==
  ASSUME TrainInv, SeatsNat, FewOrders, NEW id \in released, NEW date,
         OnSaleDay(id, date), NEW i, IsLeg(id, i), Balanced(id, date, i),
         trains'[id] = trains[id], UNCHANGED ticket_index,
         NEW o \in Holders(id, date, i),
         Holders(id, date, i)' = Holders(id, date, i) \ {o},
         NEW n \in 1 .. trains[id].seat_count, n = ticket_index[o].seat_count,
         GetVacancy(id, date, i)' = GetVacancy(id, date, i) + n
  PROVE  Balanced(id, date, i)'
  <1>1. PICK H, m, c : /\ H = Holders(id, date, i) \ {o}
                       /\ m = trains[id].seat_count /\ c = Counts
    OBVIOUS
  <1>2. /\ GetVacancy(id, date, i) \in Nat /\ m \in Nat
        /\ IsFiniteSet(Holders(id, date, i))
        /\ Cardinality(HeldSeats(id, date, i)) \in Nat
    BY <1>1, BalanceFacts
  <1>3. IsFiniteSet(H) /\ o \notin H /\ Holders(id, date, i) = H \cup {o}
    BY <1>1, <1>2, FS_RemoveElement
  <1>4. /\ HeldSeats(id, date, i) = SeatsOf(H \cup {o}, c, m)
        /\ HeldSeats(id, date, i)' = SeatsOf(H, c, m)
    BY <1>1, <1>3 DEF HeldSeats, SeatsOf, Holders, Counts
  <1>5. c[o] = n
    BY <1>1 DEF Counts, Holders
  <1>6. Cardinality(SeatsOf(H \cup {o}, c, m)) = Cardinality(SeatsOf(H, c, m)) + n
    BY <1>1, <1>2, <1>3, <1>5, OneHolderMore
  <1>7. Cardinality(SeatsOf(H, c, m)) \in Nat
    BY <1>2, <1>3, SeatsOfFinite
  <1>8. Cardinality(HeldSeats(id, date, i))
          = Cardinality(HeldSeats(id, date, i)') + n
        /\ Cardinality(HeldSeats(id, date, i)') \in Nat
    BY <1>4, <1>6, <1>7
  <1> QED
    BY <1>1, <1>2, <1>8 DEF Balanced

Conserved ==
  \A id \in released : \A date, i :
    OnSaleDay(id, date) /\ IsLeg(id, i) => Balanced(id, date, i)

LEMMA ConservedMeans == Conserved => SeatConservation
  BY DEF Conserved, SeatConservation, Balanced, OnSaleDay, IsLeg

(* Steps that write to an order known not to be sold, or to none.          *)
LEMMA NoSaleStep ==
  ASSUME BaseInv, OrdersInv, Conserved,
         \A x \in released : trains'[x] = trains[x],
         \A k \in DOMAIN vacancy :
           k \in DOMAIN vacancy' /\ vacancy'[k] = vacancy[k],
         SameButStatus,
         \A k \in DOMAIN ticket_index : \A id, date, i :
           HoldsSeats(k, id, date, i)' <=> HoldsSeats(k, id, date, i),
         NEW id \in released, NEW date, OnSaleDay(id, date),
         NEW i, IsLeg(id, i)
  PROVE  Balanced(id, date, i)'
  <1>1. GetVacancy(id, date, i)' = GetVacancy(id, date, i)
    BY SeatsElsewhereStay DEF BaseInv
  <1>2. Holders(id, date, i)' = Holders(id, date, i)
    BY DEF Holders, SameButStatus
  <1>3. \A k \in Holders(id, date, i) :
          ticket_index'[k].seat_count = ticket_index[k].seat_count
    BY DEF Holders, SameButStatus
  <1>4. Balanced(id, date, i)
    BY DEF Conserved
  <1> QED
    BY <1>1, <1>2, <1>3, <1>4, BalanceKept

LEMMA BuyTicketConserves ==
  ASSUME BaseInv, OrdersInv, SeatsNat, FewOrders, Conserved,
         NEW u \in Users, NEW id, NEW day, NEW from, NEW to, NEW num,
         Bought(u, id, day, from, to, num)
  PROVE  FewOrders' /\ Conserved'
  <1>1. PICK key : key = <<u, -logged_in_users[u].order_count>>
    OBVIOUS
  <1> DEFINE status == IF Fits(id, day, from, to, num) THEN "SUCCESS"
                       ELSE "PENDING"
             t == TicketInfo(status, id, day, from, to, num)
  <1>2. /\ key \notin DOMAIN ticket_index
        /\ DOMAIN ticket_index' = DOMAIN ticket_index \cup {key}
        /\ ticket_index'[key] = t
        /\ \A k \in DOMAIN ticket_index : ticket_index'[k] = ticket_index[k]
    <2>1. /\ LoggedIn(u) /\ logged_in_users[u].order_count \in Nat
      BY DEF BaseInv, UserInv, UserTypeOK, UserData, Bought, PlaceOrder,
             CountOrder, LoggedIn
    <2>2. PICK no \in Nat : no = logged_in_users[u].order_count
      BY <2>1
    <2>3. OrderCount(u) = no /\ -no \in Int /\ -(-no) = no
      BY <2>1, <2>2 DEF OrderCount
    <2>4. key \notin DOMAIN ticket_index
      BY <1>1, <2>2, <2>3 DEF OrdersInv, KeysNumbered
    <2> QED
      BY <1>1, <2>4 DEF Bought, PlaceOrder, OrderKey, Insert, Found
  <1>3. /\ refund = Idle /\ refund' = Idle
        /\ UNCHANGED <<trains, released>>
    BY DEF Bought
  <1>4. /\ t \in TicketInfos /\ IsServable(t) /\ t.status = status
        /\ t.train_id = id /\ t.date = day /\ t.from = from /\ t.to = to
        /\ t.seat_count = num
    BY DEF Bought, TicketInfo, TicketInfos, Status
  <1>5. /\ id \in released /\ OnSaleDay(id, day)
        /\ from \in Nat /\ to \in Nat /\ from < to
        /\ to < trains[id].station_count
        /\ num \in 1 .. trains[id].seat_count /\ num \in Int
    BY <1>4, ServableFacts DEF BaseInv
  <1> HIDE DEF t
  <1>6. FewOrders'
    BY <1>2, FS_AddElement DEF FewOrders
  <1>7. ASSUME NEW x \in released, NEW date, OnSaleDay(x, date),
               NEW i, IsLeg(x, i)
        PROVE  Balanced(x, date, i)'
    <2>1. \A k \in DOMAIN ticket_index :
            /\ HoldsSeats(k, x, date, i)' <=> HoldsSeats(k, x, date, i)
            /\ ticket_index'[k].seat_count = ticket_index[k].seat_count
      BY <1>2, <1>3 DEF HoldsSeats, BeingRefunded
    <2>2. HoldsSeats(key, x, date, i)' <=>
            status = "SUCCESS" /\ x = id /\ date = day /\ i \in from .. to - 1
      BY <1>2, <1>3, <1>4 DEF HoldsSeats, BeingRefunded
    <2>3. Balanced(x, date, i) /\ key \notin Holders(x, date, i)
      BY <1>2, <1>7 DEF Conserved, Holders
    <2>4. CASE status = "PENDING"
      <3>1. Holders(x, date, i)' = Holders(x, date, i)
        BY <1>2, <2>1, <2>2, <2>4 DEF Holders
      <3>2. UNCHANGED vacancy
        BY <2>4 DEF Bought, PlaceOrder
      <3>3. GetVacancy(x, date, i)' = GetVacancy(x, date, i)
        BY <1>3, <3>2 DEF GetVacancy, GetVacancyId, Slot
      <3> QED
        BY <1>3, <2>1, <2>3, <3>1, <3>3, BalanceKept DEF Holders
    <2>5. CASE status = "SUCCESS"
      <3>1. vacancy' = ReduceVacancy(id, day, from, to, num)
        BY <2>5 DEF Bought, PlaceOrder
      <3>2. GetVacancy(x, date, i)'
              = IF x = id /\ date = day /\ i \in from .. to - 1
                  THEN GetVacancy(x, date, i) - num ELSE GetVacancy(x, date, i)
        BY <1>3, <1>5, <1>7, <3>1, VacancyChange DEF BaseInv
      <3>3. CASE x = id /\ date = day /\ i \in from .. to - 1
        <4>1. Holders(x, date, i)' = Holders(x, date, i) \cup {key}
          BY <1>2, <2>1, <2>2, <2>5, <3>3 DEF Holders
        <4>2. \A k \in Holders(x, date, i) :
                ticket_index'[k].seat_count = ticket_index[k].seat_count
          BY <2>1 DEF Holders
        <4>3. key \in DOMAIN ticket_index' /\ num = ticket_index'[key].seat_count
          BY <1>2, <1>4
        <4> QED
          BY <1>3, <1>5, <1>7, <2>3, <3>2, <3>3, <4>1, <4>2, <4>3, BalanceTaken
          DEF BaseInv
      <3>4. CASE ~(x = id /\ date = day /\ i \in from .. to - 1)
        <4>1. Holders(x, date, i)' = Holders(x, date, i)
          BY <1>2, <2>1, <2>2, <3>4 DEF Holders
        <4> QED
          BY <1>3, <2>1, <2>3, <3>2, <3>4, <4>1, BalanceKept DEF Holders
      <3> QED
        BY <3>3, <3>4
    <2> QED
      BY <2>4, <2>5
  <1> QED
    BY <1>3, <1>6, <1>7 DEF Conserved, OnSaleDay, IsLeg
(* The order's seats are back in the vacancies, and the order, which the   *)
(* index still calls sold, holds none: it is the one being refunded.       *)
LEMMA RefundSoldConserves ==
  ASSUME BaseInv, OrdersInv, SeatsNat, FewOrders, Conserved,
         NEW u \in Users, NEW n \in Nat \ {0}, RefundSold(u, n)
  PROVE  Conserved'
  <1>1. PICK no, o : no = OrderNo(u, n) /\ o = OrderKey(u, no)
    OBVIOUS
  <1>2. PICK t \in TicketInfos :
          o \in DOMAIN ticket_index /\ t = ticket_index[o] /\ t.status = "SUCCESS"
    BY <1>1, OrderIsFound DEF RefundSold, OrdersInv, TicketTypeOK
  <1>3. /\ refund' = [user |-> u, order_no |-> no, ticket |-> t,
                      next |-> 0, to_delete |-> {}]
        /\ vacancy' = ReduceVacancy(t.train_id, t.date, t.from, t.to,
                                    -t.seat_count)
    BY <1>1, <1>2, OrderIsFound DEF RefundSold
  <1>4. /\ refund = Idle
        /\ UNCHANGED <<trains, released, ticket_index>>
    BY DEF RefundSold
  <1>5. /\ t.train_id \in released /\ OnSaleDay(t.train_id, t.date)
        /\ t.from \in Nat /\ t.to \in Nat /\ t.from < t.to
        /\ t.to < trains[t.train_id].station_count
        /\ t.seat_count \in 1 .. trains[t.train_id].seat_count
        /\ t.seat_count \in Nat /\ -t.seat_count \in Int
    BY <1>2, ServableFacts DEF OrdersInv, AllServable, BaseInv
  <1>6. refund' # Idle /\ OrderKey(refund'.user, refund'.order_no) = o
    <2>1. refund' \in Refunds
      BY <1>1, <1>2, <1>3, OrderIsFound DEF Refunds, RefundSold
    <2> QED
      BY <1>1, <1>3, <2>1, TicketAssumption DEF OrderKey
  <1>7. \A k : BeingRefunded(k)' <=> k = o
    BY <1>6 DEF BeingRefunded, OrderKey
  <1>8. \A k : ~BeingRefunded(k)
    BY <1>4 DEF BeingRefunded
  <1>9. ASSUME NEW x \in released, NEW date, OnSaleDay(x, date),
               NEW i, IsLeg(x, i)
        PROVE  Balanced(x, date, i)'
    <2>1. \A k \in DOMAIN ticket_index :
            HoldsSeats(k, x, date, i)' <=> HoldsSeats(k, x, date, i) /\ k # o
      BY <1>4, <1>7, <1>8 DEF HoldsSeats
    <2>2. HoldsSeats(o, x, date, i) <=>
            x = t.train_id /\ date = t.date /\ i \in t.from .. t.to - 1
      BY <1>2, <1>8 DEF HoldsSeats
    <2>3. GetVacancy(x, date, i)'
            = IF x = t.train_id /\ date = t.date /\ i \in t.from .. t.to - 1
                THEN GetVacancy(x, date, i) - (-t.seat_count)
                ELSE GetVacancy(x, date, i)
      BY <1>3, <1>4, <1>5, <1>9, VacancyChange DEF BaseInv
    <2>4. Balanced(x, date, i) /\ GetVacancy(x, date, i) \in Nat
      BY <1>9, VacancyNat DEF Conserved, BaseInv
    <2>5. CASE x = t.train_id /\ date = t.date /\ i \in t.from .. t.to - 1
      <3>1. /\ o \in Holders(x, date, i)
            /\ Holders(x, date, i)' = Holders(x, date, i) \ {o}
        BY <1>2, <1>4, <2>1, <2>2, <2>5 DEF Holders
      <3>2. GetVacancy(x, date, i)' = GetVacancy(x, date, i) + t.seat_count
        BY <1>5, <2>3, <2>4, <2>5
      <3> QED
        BY <1>2, <1>4, <1>5, <1>9, <2>4, <2>5, <3>1, <3>2, BalanceReturned
        DEF BaseInv
    <2>6. CASE ~(x = t.train_id /\ date = t.date /\ i \in t.from .. t.to - 1)
      <3>1. Holders(x, date, i)' = Holders(x, date, i)
        BY <1>4, <2>1, <2>2, <2>6 DEF Holders
      <3>2. GetVacancy(x, date, i)' = GetVacancy(x, date, i)
        BY <2>3, <2>6
      <3> QED
        BY <1>4, <2>4, <3>1, <3>2, BalanceKept
    <2> QED
      BY <2>5, <2>6
  <1> QED
    BY <1>4, <1>9 DEF Conserved, OnSaleDay, IsLeg

LEMMA PromoteEntryConserves ==
  ASSUME BaseInv, OrdersInv, SeatsNat, FewOrders, Conserved,
         NEW q, PromoteEntry(q)
  PROVE  Conserved'
  <1>1. PICK o, t : o = EntryOrder(q) /\ t = ticket_index[o]
    OBVIOUS
  <1>2. /\ ScanAt(q) /\ t.status = "PENDING" /\ o \in DOMAIN ticket_index
        /\ refund' =
             [refund EXCEPT !.next = q[3] + 1, !.to_delete = @ \cup {q}]
        /\ ticket_index' = SetValue(ticket_index, o, WithStatus(t, "SUCCESS"))
        /\ UNCHANGED <<trains, released>>
        /\ t \in TicketInfos /\ IsServable(t)
    BY <1>1, ScanFacts DEF PromoteEntry, OrdersInv, TicketTypeOK, AllServable
  <1>3. vacancy' = ReduceVacancy(t.train_id, t.date, t.from, t.to, t.seat_count)
    BY <1>1, <1>2, ScanFacts DEF PromoteEntry, Queues
  <1>4. /\ t.train_id \in released /\ OnSaleDay(t.train_id, t.date)
        /\ t.from \in Nat /\ t.to \in Nat /\ t.from < t.to
        /\ t.to < trains[t.train_id].station_count
        /\ t.seat_count \in 1 .. trains[t.train_id].seat_count
        /\ t.seat_count \in Int
    BY <1>2, ServableFacts DEF BaseInv
  <1>5. /\ SameButStatus /\ ticket_index'[o].status = "SUCCESS"
        /\ \A k \in DOMAIN ticket_index : k # o => ticket_index'[k] = ticket_index[k]
    BY <1>1, <1>2, ChangeStatus DEF Status
  <1>6. (\A k : BeingRefunded(k)' <=> BeingRefunded(k)) /\ ~BeingRefunded(o)
    <2>1. /\ refund # Idle /\ refund' # Idle
          /\ refund'.user = refund.user /\ refund'.order_no = refund.order_no
      BY <1>2, ScanFacts, MoveOn
    <2> QED
      BY <1>1, <1>2, <2>1
      DEF BeingRefunded, OrderKey, OrdersInv, CopyIsCurrent
  <1>7. ASSUME NEW x \in released, NEW date, OnSaleDay(x, date),
               NEW i, IsLeg(x, i)
        PROVE  Balanced(x, date, i)'
    <2>1. \A k \in DOMAIN ticket_index : k # o =>
            (HoldsSeats(k, x, date, i)' <=> HoldsSeats(k, x, date, i))
      BY <1>5, <1>6 DEF HoldsSeats
    <2>2. /\ ~HoldsSeats(o, x, date, i)
          /\ HoldsSeats(o, x, date, i)' <=>
               x = t.train_id /\ date = t.date /\ i \in t.from .. t.to - 1
      BY <1>1, <1>2, <1>5, <1>6 DEF HoldsSeats, SameButStatus
    <2>3. GetVacancy(x, date, i)'
            = IF x = t.train_id /\ date = t.date /\ i \in t.from .. t.to - 1
                THEN GetVacancy(x, date, i) - t.seat_count
                ELSE GetVacancy(x, date, i)
      BY <1>2, <1>3, <1>4, <1>7, VacancyChange DEF BaseInv
    <2>4. /\ Balanced(x, date, i) /\ o \notin Holders(x, date, i)
          /\ \A k \in Holders(x, date, i) :
               ticket_index'[k].seat_count = ticket_index[k].seat_count
      BY <1>5, <1>7, <2>2 DEF Conserved, Holders, SameButStatus
    <2>5. CASE x = t.train_id /\ date = t.date /\ i \in t.from .. t.to - 1
      <3>1. /\ o \in DOMAIN ticket_index'
            /\ ticket_index'[o].seat_count = t.seat_count
            /\ Holders(x, date, i)' = Holders(x, date, i) \cup {o}
        BY <1>1, <1>2, <1>5, <2>1, <2>2, <2>5 DEF Holders, SameButStatus
      <3> QED
        BY <1>2, <1>4, <1>7, <2>3, <2>4, <2>5, <3>1, BalanceTaken DEF BaseInv
    <2>6. CASE ~(x = t.train_id /\ date = t.date /\ i \in t.from .. t.to - 1)
      <3>1. Holders(x, date, i)' = Holders(x, date, i)
        BY <1>5, <2>1, <2>2, <2>6 DEF Holders, SameButStatus
      <3> QED
        BY <1>2, <2>3, <2>4, <2>6, <3>1, BalanceKept
    <2> QED
      BY <2>5, <2>6
  <1> QED
    BY <1>2, <1>7 DEF Conserved, OnSaleDay, IsLeg

(* After the step, too, every day and leg on sale has its place.           *)
LegsHavePlaces ==
  \A x \in released : \A date, i : OnSaleDay(x, date) /\ IsLeg(x, i) =>
    /\ GetVacancyId(x, date) \in DOMAIN vacancy
    /\ Slot(x, date, i) \in DOMAIN vacancy[GetVacancyId(x, date)]

LEMMA LegsHavePlacesNext == TrainInv' => LegsHavePlaces'
  <1>1. TrainInv => LegsHavePlaces
    BY PlaceExists DEF LegsHavePlaces, OnSaleDay, IsLeg
  <1> QED
    BY <1>1, PTL

(* release_train: all the seats of the new train are free, and no order    *)
(* was taken for it before.                                                *)
LEMMA TrainCommandConserves ==
  ASSUME BaseInv, OrdersInv, SeatsNat, FewOrders, Conserved,
         TrainCommand, UNCHANGED ticketVars
  PROVE  Conserved'
  <1>1. /\ \A x \in released : x \in released' /\ trains'[x] = trains[x]
        /\ \A k \in DOMAIN vacancy :
             k \in DOMAIN vacancy' /\ vacancy'[k] = vacancy[k]
    BY TrainCommandKeeps DEF BaseInv
  <1>2. ASSUME NEW x \in released, NEW date, OnSaleDay(x, date),
               NEW i, IsLeg(x, i)
        PROVE  Balanced(x, date, i)'
    <2>1. SameButStatus
      BY SameOrders DEF ticketVars
    <2>2. \A k \in DOMAIN ticket_index : \A id, d, j :
            HoldsSeats(k, id, d, j)' <=> HoldsSeats(k, id, d, j)
      BY DEF HoldsSeats, BeingRefunded, ticketVars
    <2> QED
      BY <1>1, <1>2, <2>1, <2>2, NoSaleStep
  <1>3. ASSUME NEW x \in released', x \notin released, NEW date, NEW i,
               OnSaleDay(x, date)', IsLeg(x, i)'
        PROVE  Balanced(x, date, i)'
    <2>1. PICK name \in TrainNames : ReleaseTrain(name) /\ x = train_id_index[name]
      BY <1>3 DEF TrainCommand, AddTrain, DeleteTrain, ReleaseTrain
    <2>2. /\ trains' = trains
          /\ vacancy' = [k \in DOMAIN vacancy \cup ({x} \X Batches(trains[x])) |->
               IF k \in {x} \X Batches(trains[x]) THEN FullRow(trains[x])
               ELSE vacancy[k]]
      BY <2>1 DEF ReleaseTrain
    <2>3. TrainInv'
      BY TrainCommandInv DEF BaseInv
    <2>4. /\ GetVacancyId(x, date) \in DOMAIN vacancy'
          /\ Slot(x, date, i)' \in DOMAIN vacancy'[GetVacancyId(x, date)]
      BY <1>3, <2>3, LegsHavePlacesNext DEF LegsHavePlaces, GetVacancyId
    <2>5. GetVacancyId(x, date) \notin DOMAIN vacancy
      BY <1>3 DEF BaseInv, TrainInv, VacancyShape, GetVacancyId
    <2>6. vacancy'[GetVacancyId(x, date)] = FullRow(trains[x])
      BY <2>2, <2>4, <2>5
    <2>7. GetVacancy(x, date, i)' = trains[x].seat_count
      BY <2>2, <2>4, <2>6 DEF GetVacancy, GetVacancyId, Slot, FullRow
    <2>8. HeldSeats(x, date, i)' = {}
      <3>1. \A k \in DOMAIN ticket_index' : ticket_index'[k].train_id # x
        BY <1>3 DEF OrdersInv, AllServable, IsServable, ticketVars
      <3> QED
        BY <3>1 DEF HeldSeats, HoldsSeats
    <2>9. trains[x].seat_count \in Nat
      BY <2>1 DEF BaseInv, TrainInv, TrainTypeOK, IsTrainInput, ReleaseTrain, Found
    <2> QED
      BY <2>2, <2>7, <2>8, <2>9, FS_EmptySet DEF Balanced
  <1> QED
    BY <1>1, <1>2, <1>3 DEF Conserved, OnSaleDay, IsLeg

LEMMA ConservesNext ==
  ASSUME ProperOrderNos, BaseInv, OrdersInv, SeatsNat, FewOrders, Conserved,
         [Next]_vars
  PROVE  FewOrders' /\ Conserved'
  <1>1. CASE \/ UNCHANGED vars
             \/ UserStep
             \/ Restart
    <2>1. UNCHANGED <<trainVars, ticketVars>>
      BY <1>1 DEF UserStep, Restart, vars
    <2> QED
      BY <2>1
      DEF FewOrders, Conserved, OnSaleDay, IsLeg, Balanced, GetVacancy,
          GetVacancyId, Slot, HeldSeats, HoldsSeats, BeingRefunded, trainVars,
          ticketVars
  <1>2. CASE TrainStep
    BY <1>2, TrainCommandConserves DEF TrainStep, FewOrders, ticketVars
  <1>3. CASE \E u \in Users, name \in TrainNames, date \in BuyDates,
                s, e \in Stations, num \in SeatNos, agree \in BOOLEAN :
               BuyTicket(u, name, date, s, e, num, agree)
    BY <1>3, BuyTicketPlaces, BuyTicketConserves
  <1>4. ASSUME NEW u \in Users, NEW n \in OrderNos, RefundWaiting(u, n)
        PROVE  FewOrders' /\ Conserved'
    <2>1. PICK k : k = OrderKey(u, OrderNo(u, n))
      OBVIOUS
    <2>2. /\ k \in DOMAIN ticket_index
          /\ ticket_index[k].status = "PENDING"
          /\ ticket_index' =
               SetValue(ticket_index, k, WithStatus(ticket_index[k], "REFUNDED"))
          /\ UNCHANGED <<trainVars, refund>>
      BY <1>4, <2>1, OrderIsFound DEF RefundWaiting, ProperOrderNos
    <2>3. /\ SameButStatus /\ ticket_index'[k].status = "REFUNDED"
          /\ \A x \in DOMAIN ticket_index : x # k => ticket_index'[x] = ticket_index[x]
      BY <2>2, ChangeStatus DEF Status
    <2>4. \A x \in DOMAIN ticket_index : \A id, date, i :
            HoldsSeats(x, id, date, i)' <=> HoldsSeats(x, id, date, i)
      BY <2>2, <2>3 DEF HoldsSeats, BeingRefunded
    <2> QED
      BY <2>2, <2>3, <2>4, NoSaleStep
      DEF SameButStatus, FewOrders, Conserved, OnSaleDay, IsLeg, trainVars
  <1>5. CASE \E u \in Users, n \in OrderNos : RefundSold(u, n)
    BY <1>5, RefundSoldConserves DEF ProperOrderNos, RefundSold, FewOrders
  <1>6. ASSUME NEW k \in DOMAIN pending_queue, SkipEntry(k) \/ DropEntry(k)
        PROVE  FewOrders' /\ Conserved'
    <2>1. /\ ScanAt(k)
          /\ \/ refund' = [refund EXCEPT !.next = k[3] + 1]
             \/ refund' = [refund EXCEPT !.next = k[3] + 1, !.to_delete = @ \cup {k}]
          /\ UNCHANGED <<vacancy, ticket_index, trains, released>>
      BY <1>6, ScanFacts DEF SkipEntry, DropEntry
    <2>2. \A x \in DOMAIN ticket_index : \A id, date, i :
            HoldsSeats(x, id, date, i)' <=> HoldsSeats(x, id, date, i)
      BY <2>1, ScanFacts, MoveOn DEF HoldsSeats, BeingRefunded, OrderKey
    <2> QED
      BY <2>1, <2>2, SameOrders, NoSaleStep
      DEF FewOrders, Conserved, OnSaleDay, IsLeg
  <1>7. ASSUME NEW k \in DOMAIN pending_queue, PromoteEntry(k)
        PROVE  FewOrders' /\ Conserved'
    <2>1. DOMAIN ticket_index' = DOMAIN ticket_index
      BY <1>7, ScanFacts DEF PromoteEntry, SetValue
    <2> QED
      BY <1>7, <2>1, PromoteEntryConserves DEF FewOrders
  <1>8. CASE FinishRefund
    <2>1. PICK o : o = OrderKey(refund.user, refund.order_no)
      OBVIOUS
    <2>2. /\ o \in DOMAIN ticket_index
          /\ ticket_index' =
               SetValue(ticket_index, o, WithStatus(ticket_index[o], "REFUNDED"))
          /\ refund # Idle /\ refund' = Idle /\ UNCHANGED trainVars
      BY <1>8, <2>1 DEF OrdersInv, CopyIsCurrent, FinishRefund
    <2>3. /\ SameButStatus /\ ticket_index'[o].status = "REFUNDED"
          /\ \A x \in DOMAIN ticket_index : x # o => ticket_index'[x] = ticket_index[x]
      BY <2>2, ChangeStatus DEF Status
    <2>4. \A x \in DOMAIN ticket_index : \A id, date, i :
            HoldsSeats(x, id, date, i)' <=> HoldsSeats(x, id, date, i)
      BY <2>1, <2>2, <2>3 DEF HoldsSeats, BeingRefunded
    <2> QED
      BY <2>2, <2>3, <2>4, NoSaleStep
      DEF SameButStatus, FewOrders, Conserved, OnSaleDay, IsLeg, trainVars
  <1>9. CASE Clean
    <2>1. DOMAIN ticket_index' = {} /\ released' = {}
      BY <1>9 DEF Clean, TrainClean, EmptyMap
    <2> QED
      BY <2>1, FS_EmptySet DEF FewOrders, Conserved
  <1> QED
    BY <1>1, <1>2, <1>3, <1>4, <1>5, <1>6, <1>7, <1>8, <1>9
    DEF Next, RefundStep

(* No seat is lost and none is created: on every day and leg on sale the   *)
(* seats in the Vacancy record and those of the sold orders that cover the *)
(* leg add up to the seats of the train, also in the middle of a refund.   *)
THEOREM SeatsAreConserved ==
  ASSUME ProperOrderNos
  PROVE  Spec => []SeatConservation
  <1>1. Init => FewOrders /\ Conserved
    <2> SUFFICES ASSUME Init PROVE FewOrders /\ Conserved
      OBVIOUS
    <2>1. DOMAIN ticket_index = {} /\ released = {}
      BY DEF Init, TrainInit, EmptyMap
    <2> QED
      BY <2>1, FS_EmptySet DEF FewOrders, Conserved
  <1>2. BaseInv /\ OrdersInv /\ SeatsNat /\ FewOrders /\ Conserved /\ [Next]_vars
          => FewOrders' /\ Conserved'
    BY ConservesNext
  <1>3. Conserved => SeatConservation
    BY ConservedMeans
  <1> QED
    BY <1>1, <1>2, <1>3, QueueIsServed, PTL DEF Spec
=============================================================================
