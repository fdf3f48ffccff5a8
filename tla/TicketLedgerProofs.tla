------------------------- MODULE TicketLedgerProofs --------------------------
(***************************************************************************)
(* Every step of the program is a step of the ledger or changes no line of *)
(* it.  That a request fits by the vacancies is that it fits by counting   *)
(* the sold lines: seats are conserved.  That a queue is settled whenever  *)
(* a command begins, and served in turn, is the invariant of the scan.     *)
(***************************************************************************)
EXTENDS TicketLedger, TicketSystemProofs

Inv ==
  /\ BaseInv /\ OrdersInv /\ SeatsNat
  /\ PassedDontFit
  /\ FewOrders /\ Conserved

LEMMA LedgerLineFields ==
  \A k : LET t == ticket_index[k]
             o == LedgerLine(k)
         IN /\ o.status = LedgerStatus(k) /\ o.train = t.train_id
            /\ o.date = t.date /\ o.from = t.from /\ o.to = t.to
            /\ o.seats = t.seat_count /\ o.since = Since(k)
  BY DEF LedgerLine

-----------------------------------------------------------------------------
(* Counting the lines that are sold and looking up the vacancies decide    *)
(* alike.                                                                  *)
LEMMA SoldIsHeld ==
  ASSUME TrainInv, NEW id \in released, NEW date, NEW i \in Int,
         \A k \in DOMAIN ticket_index : ticket_index[k] \in TicketInfos
  PROVE  Ledger!Sold(id, date, i) = HeldSeats(id, date, i)
  <1>1. OnSale[id].seats = trains[id].seat_count
    BY DEF OnSale, SaleOf
  <1>2. \A k \in DOMAIN ticket_index :
          HoldsSeats(k, id, date, i) <=>
            /\ Lines[k].status = "SUCCESS" /\ Lines[k].train = id
            /\ Lines[k].date = date
            /\ Lines[k].from <= i /\ i < Lines[k].to
    <2> SUFFICES ASSUME NEW k \in DOMAIN ticket_index
                 PROVE  HoldsSeats(k, id, date, i) <=>
                          /\ LedgerStatus(k) = "SUCCESS"
                          /\ ticket_index[k].train_id = id
                          /\ ticket_index[k].date = date
                          /\ ticket_index[k].from <= i
                          /\ i < ticket_index[k].to
      BY LedgerLineFields DEF Lines
    <2>1. ticket_index[k].from \in Nat /\ ticket_index[k].to \in Nat
      BY DEF TicketInfos
    <2>2. i \in ticket_index[k].from .. ticket_index[k].to - 1 <=>
            ticket_index[k].from <= i /\ i < ticket_index[k].to
      BY <2>1
    <2> QED
      BY <2>2 DEF HoldsSeats, LedgerStatus
  <1>3. \A k \in DOMAIN ticket_index : Lines[k].seats = ticket_index[k].seat_count
    BY LedgerLineFields DEF Lines
  <1>4. DOMAIN Lines = DOMAIN ticket_index
    BY DEF Lines
  <1> QED
    BY <1>1, <1>2, <1>3, <1>4 DEF Ledger!Sold, HeldSeats

LEMMA SameCardinality == \A S : Ledger!Cardinality(S) = Cardinality(S)
  BY DEF Ledger!Cardinality, Cardinality

LEMMA CountedAlike ==
  ASSUME Inv, NEW o, o.train \in released, OnSaleDay(o.train, o.date),
         o.from \in Nat, o.to \in Nat, o.to < trains[o.train].station_count,
         o.seats \in Nat
  PROVE  Ledger!HasSeats(o) <=> Fits(o.train, o.date, o.from, o.to, o.seats)
  <1>1. PICK id \in released, seats \in Nat :
          id = o.train /\ seats = o.seats
    OBVIOUS
  <1>2. trains[id].station_count \in Nat
    BY DEF Inv, BaseInv, TrainInv, TrainTypeOK, IsTrainInput
  <1>3. OnSale[id].seats = trains[id].seat_count
    BY DEF OnSale, SaleOf
  <1>4. ASSUME NEW i \in o.from .. o.to - 1
        PROVE  Cardinality(Ledger!Sold(id, o.date, i)) + seats
                   <= trains[id].seat_count
                 <=> GetVacancy(id, o.date, i) >= seats
    <2>1. IsLeg(id, i) /\ i \in Int /\ OnSaleDay(id, o.date)
      BY <1>1, <1>2 DEF IsLeg
    <2>2. Ledger!Sold(id, o.date, i) = HeldSeats(id, o.date, i)
      BY <2>1, SoldIsHeld DEF Inv, BaseInv, OrdersInv, TicketTypeOK
    <2>3. /\ GetVacancy(id, o.date, i) \in Nat
          /\ trains[id].seat_count \in Nat
          /\ Cardinality(HeldSeats(id, o.date, i)) \in Nat
      BY <2>1, BalanceFacts DEF Inv, BaseInv
    <2>4. GetVacancy(id, o.date, i) + Cardinality(HeldSeats(id, o.date, i))
            = trains[id].seat_count
      BY <2>1 DEF Inv, Conserved, Balanced
    <2> QED
      BY <2>2, <2>3, <2>4
  <1>5. Ledger!HasSeats(o) <=>
          \A i \in o.from .. o.to - 1 :
            Cardinality(Ledger!Sold(id, o.date, i)) + seats
              <= trains[id].seat_count
    BY <1>1, <1>3, SameCardinality DEF Ledger!HasSeats
  <1>6. Fits(o.train, o.date, o.from, o.to, o.seats) <=>
          \A i \in o.from .. o.to - 1 : GetVacancy(id, o.date, i) >= seats
    BY <1>1 DEF Fits
  <1> QED
    BY <1>4, <1>5, <1>6

(* The lines of orders in the index can be served, and fit as orders fit.  *)
LEMMA LineFits ==
  ASSUME Inv, NEW k \in DOMAIN ticket_index
  PROVE  Ledger!HasSeats(Lines[k]) <=> OrderFits(k)
  <1>1. /\ ticket_index[k] \in TicketInfos
        /\ IsServable(ticket_index[k])
    BY DEF Inv, OrdersInv, TicketTypeOK, AllServable
  <1>2. /\ Lines[k].train = ticket_index[k].train_id
        /\ Lines[k].date = ticket_index[k].date
        /\ Lines[k].from = ticket_index[k].from
        /\ Lines[k].to = ticket_index[k].to
        /\ Lines[k].seats = ticket_index[k].seat_count
    BY LedgerLineFields DEF Lines
  <1> QED
    BY <1>1, <1>2, ServableFacts, CountedAlike
    DEF Inv, BaseInv, OrderFits

(* Between commands the ledger is settled.                                 *)
LEMMA SettledWhenIdle ==
  ASSUME Inv, refund = Idle
  PROVE  Ledger!Settled
  <1>1. NobodyWaitsForFreeSeats
    BY WaitersWait DEF Inv
  <1>2. DOMAIN Lines = DOMAIN ticket_index
    BY DEF Lines
  <1>3. \A k \in DOMAIN ticket_index : Ledger!Pending(k) => Waits(k)
    BY LedgerLineFields DEF Ledger!Pending, Lines, LedgerStatus, Waits
  <1> QED
    BY <1>1, <1>2, <1>3, LineFits DEF Ledger!Settled, NobodyWaitsForFreeSeats
-----------------------------------------------------------------------------
(* The order an entry leads to came at the timestamp of the entry.         *)
SinceFollows ==
  \A q \in DOMAIN pending_queue :
    Waits(EntryOrder(q)) => Since(EntryOrder(q)) = q[3]

LEMMA SinceOfEntry == QueueMatchesOrders => SinceFollows
  <1> SUFFICES ASSUME QueueMatchesOrders, NEW q \in DOMAIN pending_queue,
                      Waits(EntryOrder(q))
               PROVE  Since(EntryOrder(q)) = q[3]
    BY DEF SinceFollows
  <1> DEFINE r == CHOOSE r \in DOMAIN pending_queue :
                    EntryOrder(r) = EntryOrder(q)
  <1>1. r \in DOMAIN pending_queue /\ EntryOrder(r) = EntryOrder(q)
    OBVIOUS
  <1>2. r = q
    BY <1>1 DEF QueueMatchesOrders
  <1> QED
    BY <1>2 DEF Since

LEMMA SinceOfEntryNext == QueueMatchesOrders' => SinceFollows'
  <1>1. QueueMatchesOrders => SinceFollows
    BY SinceOfEntry
  <1> QED
    BY <1>1, PTL

(* A line does not change unless its order does, or its entry goes.        *)
LEMMA LineKept ==
  ASSUME OrdersInv, OrdersInv', NEW k \in DOMAIN ticket_index,
         ticket_index'[k] = ticket_index[k],
         BeingRefunded(k)' <=> BeingRefunded(k),
         \A q \in DOMAIN pending_queue \ ToDelete :
           EntryOrder(q) = k /\ Waits(k) =>
             q \in DOMAIN pending_queue' /\ pending_queue'[q] = pending_queue[q]
  PROVE  LedgerLine(k)' = LedgerLine(k)
  <1>1. Since(k)' = Since(k)
    <2>1. CASE Waits(k)
      <3>1. PICK q \in DOMAIN pending_queue \ ToDelete : Queues(q, k)
        BY <2>1 DEF OrdersInv, QueueMatchesOrders
      <3>2. EntryOrder(q) = k
        BY <3>1 DEF Queues
      <3>3. q \in DOMAIN pending_queue' /\ pending_queue'[q] = pending_queue[q]
        BY <2>1, <3>2
      <3>4. EntryOrder(q)' = k
        BY <3>2, <3>3 DEF EntryOrder, OrderKey
      <3>5. Waits(k)'
        BY <2>1 DEF Waits
      <3>6. SinceFollows /\ SinceFollows'
        BY SinceOfEntry, SinceOfEntryNext DEF OrdersInv
      <3>7. Since(k) = q[3]
        BY <2>1, <3>2, <3>6 DEF SinceFollows
      <3>8. Since(k)' = q[3]
        BY <3>3, <3>4, <3>5, <3>6 DEF SinceFollows
      <3> QED
        BY <3>7, <3>8
    <2>2. CASE ~Waits(k)
      BY <2>2 DEF Since, Waits
    <2> QED
      BY <2>1, <2>2
  <1>2. LedgerStatus(k)' = LedgerStatus(k)
    BY DEF LedgerStatus
  <1> QED
    BY <1>1, <1>2 DEF LedgerLine

LEMMA LinesKept ==
  ASSUME DOMAIN ticket_index' = DOMAIN ticket_index,
         \A k \in DOMAIN ticket_index : LedgerLine(k)' = LedgerLine(k)
  PROVE  Lines' = Lines
  BY DEF Lines

(* The line of an order that is promoted or refunded.                      *)
LEMMA LineDecided ==
  ASSUME DOMAIN ticket_index' = DOMAIN ticket_index,
         NEW o \in DOMAIN ticket_index, NEW status \in {"SUCCESS", "REFUNDED"},
         ticket_index'[o].train_id = ticket_index[o].train_id,
         ticket_index'[o].date = ticket_index[o].date,
         ticket_index'[o].from = ticket_index[o].from,
         ticket_index'[o].to = ticket_index[o].to,
         ticket_index'[o].seat_count = ticket_index[o].seat_count,
         LedgerStatus(o)' = status, ~Waits(o)',
         \A k \in DOMAIN ticket_index :
           k # o => LedgerLine(k)' = LedgerLine(k),
         UNCHANGED OnSale
  PROVE  Ledger!SetStatus(o, status)
  <1>1. Since(o)' = 0
    BY DEF Since
  <1>2. LedgerLine(o)' = [LedgerLine(o) EXCEPT !.status = status, !.since = 0]
    <2>1. LedgerLine(o)' =
            [status |-> status, train |-> ticket_index[o].train_id,
             date |-> ticket_index[o].date, from |-> ticket_index[o].from,
             to |-> ticket_index[o].to, seats |-> ticket_index[o].seat_count,
             since |-> 0]
      BY <1>1 DEF LedgerLine
    <2>2. PICK r : r = LedgerLine(o)
      OBVIOUS
    <2>3. PICK x : x = [r EXCEPT !.status = status]
      OBVIOUS
    <2>4. x = [status |-> status, train |-> ticket_index[o].train_id,
               date |-> ticket_index[o].date, from |-> ticket_index[o].from,
               to |-> ticket_index[o].to, seats |-> ticket_index[o].seat_count,
               since |-> Since(o)]
      BY <2>2, <2>3 DEF LedgerLine
    <2>5. [x EXCEPT !.since = 0] = LedgerLine(o)'
      BY <2>1, <2>4
    <2> QED
      BY <2>2, <2>3, <2>5, Zenon
  <1>3. Lines' = [Lines EXCEPT ![o] = LedgerLine(o)']
    BY DEF Lines
  <1>4. Lines[o] = LedgerLine(o) /\ o \in DOMAIN Lines
    BY DEF Lines
  <1>5. [Lines EXCEPT ![o].status = status, ![o].since = 0]
          = [Lines EXCEPT ![o] =
               [Lines[o] EXCEPT !.status = status, !.since = 0]]
    BY <1>4 DEF Lines, LedgerLine
  <1> QED
    BY <1>2, <1>3, <1>4, <1>5 DEF Ledger!SetStatus

(* The sale does not change unless a train is released or all is cleaned.  *)
LEMMA SaleKept ==
  ASSUME UNCHANGED released, \A id \in released : trains'[id] = trains[id]
  PROVE  UNCHANGED OnSale
  BY DEF OnSale, SaleOf

-----------------------------------------------------------------------------
(* buy_ticket: the next line of the ledger.                                *)
LEMMA BuyTicketLedger ==
  ASSUME Inv, OrdersInv',
         NEW u \in Users, NEW id, NEW day, NEW from, NEW to, NEW num,
         Bought(u, id, day, from, to, num)
  PROVE  Ledger!LedgerNext
  <1>1. PICK key, no :
          key = OrderKey(u, no) /\ no = logged_in_users[u].order_count
    OBVIOUS
  <1> DEFINE status == IF Fits(id, day, from, to, num) THEN "SUCCESS"
                       ELSE "PENDING"
             t == TicketInfo(status, id, day, from, to, num)
  <1>2. /\ refund = Idle /\ UNCHANGED <<refund, released, trains>>
        /\ CountOrder(u)
        /\ ticket_index' = Insert(ticket_index, key, t)
        /\ t \in TicketInfos /\ IsServable(t)
    BY <1>1 DEF Bought, PlaceOrder, TicketInfo, TicketInfos, Status, IsServable
  <1>3. key \notin DOMAIN ticket_index
    <2>1. LoggedIn(u) /\ OrderCount(u) = no /\ no \in Nat
      BY <1>1, <1>2, OrderCountNat
      DEF CountOrder, OrderCount, Inv, BaseInv
    <2>2. -no \in Int /\ -(-no) = no /\ no \notin 0 .. no - 1
      BY <2>1
    <2> QED
      BY <1>1, <2>1, <2>2 DEF Inv, OrdersInv, KeysNumbered, OrderKey
  <1> HIDE DEF status
  <1>4. /\ DOMAIN ticket_index' = DOMAIN ticket_index \cup {key}
        /\ ticket_index'[key] = t
        /\ \A k \in DOMAIN ticket_index : ticket_index'[k] = ticket_index[k]
    BY <1>2, <1>3 DEF Insert, Found
  <1>5. UNCHANGED OnSale
    BY <1>2, SaleKept
  <1>6. ASSUME NEW k \in DOMAIN ticket_index
        PROVE  LedgerLine(k)' = LedgerLine(k)
    <2>1. BeingRefunded(k)' <=> BeingRefunded(k)
      BY <1>2 DEF BeingRefunded
    <2>2. \A q \in DOMAIN pending_queue :
            q \in DOMAIN pending_queue' /\ pending_queue'[q] = pending_queue[q]
      BY DEF Bought, PlaceOrder, Insert, Found
    <2> QED
      BY <1>4, <2>1, <2>2, LineKept DEF Inv
  <1>7. PICK o : o = Lines'[key]
    OBVIOUS
  <1>8. /\ key \notin DOMAIN Lines
        /\ Lines' = [x \in DOMAIN Lines \cup {key} |->
                       IF x = key THEN o ELSE Lines[x]]
    BY <1>3, <1>4, <1>6, <1>7 DEF Lines
  <1>9. /\ o.status = status /\ o.train = id /\ o.date = day
        /\ o.from = from /\ o.to = to /\ o.seats = num /\ o.since = Since(key)'
    <2>1. o = LedgerLine(key)'
      BY <1>4, <1>7 DEF Lines
    <2>2. LedgerStatus(key)' = status
      BY <1>2, <1>4 DEF LedgerStatus, BeingRefunded, TicketInfo
    <2> QED
      BY <1>4, <2>1, <2>2 DEF LedgerLine, TicketInfo
  <1>10. /\ id \in released /\ OnSaleDay(id, day)
         /\ from \in Nat /\ to \in Nat /\ from < to
         /\ to < trains[id].station_count
         /\ num \in 1 .. trains[id].seat_count /\ num \in Nat
    BY <1>2, ServableFacts DEF TicketInfo, Inv, BaseInv
  <1>11. Ledger!Servable(o)
    <2>1. trains[id].station_count \in Nat
      BY <1>10 DEF Inv, BaseInv, TrainInv, TrainTypeOK, IsTrainInput
    <2>2. /\ id \in DOMAIN OnSale
          /\ OnSale[id].days = trains[id].date_beg .. trains[id].date_end
          /\ OnSale[id].legs = trains[id].station_count - 1
          /\ OnSale[id].seats = trains[id].seat_count
      BY <1>10 DEF OnSale, SaleOf
    <2> QED
      BY <1>9, <1>10, <2>1, <2>2 DEF Ledger!Servable, OnSaleDay
  <1>12. Ledger!HasSeats(o) <=> Fits(id, day, from, to, num)
    BY <1>9, <1>10, CountedAlike
  <1>13. Ledger!Settled
    BY <1>2, SettledWhenIdle
  <1>14. Ledger!Record(key, Lines'[key])
    BY <1>5, <1>7, <1>8 DEF Ledger!Record
  <1>15. CASE Fits(id, day, from, to, num)
    <2>1. Ledger!Book(key, Lines'[key])
      BY <1>7, <1>9, <1>11, <1>12, <1>13, <1>14, <1>15 DEF Ledger!Book, status
    <2> QED
      BY <1>8, <2>1 DEF Ledger!LedgerNext
  <1>16. CASE ~Fits(id, day, from, to, num)
    <2>1. PICK q : q = <<id, day, clock>>
      OBVIOUS
    <2>2. /\ q \notin DOMAIN pending_queue /\ q[3] = clock
      BY <2>1 DEF Inv, OrdersInv, QueueMatchesOrders, TicketTypeOK
    <2>3. /\ q \in DOMAIN pending_queue'
          /\ pending_queue'[q].user_id = u /\ pending_queue'[q].order_no = no
      BY <1>1, <1>16, <2>1, <2>2 DEF Bought, PlaceOrder, Insert, Found
    <2>4. EntryOrder(q)' = key
      BY <1>1, <2>3 DEF EntryOrder, OrderKey
    <2>5. Waits(key)'
      BY <1>4, <1>16 DEF Waits, TicketInfo, status
    <2>6. SinceFollows /\ SinceFollows'
      BY SinceOfEntry, SinceOfEntryNext DEF Inv, OrdersInv
    <2>7. o.since = clock
      BY <1>9, <2>2, <2>3, <2>4, <2>5, <2>6 DEF SinceFollows
    <2>8. \A x \in DOMAIN Lines : Ledger!Pending(x) => Lines[x].since < o.since
      <3> SUFFICES ASSUME NEW x \in DOMAIN Lines, Ledger!Pending(x)
                   PROVE  Lines[x].since < clock
        BY <2>7
      <3>1. x \in DOMAIN ticket_index /\ Waits(x) /\ Lines[x].since = Since(x)
        BY LedgerLineFields DEF Lines, Ledger!Pending, LedgerStatus, Waits
      <3>2. PICK r \in DOMAIN pending_queue : EntryOrder(r) = x
        BY <3>1 DEF Inv, OrdersInv, QueueMatchesOrders, Queues
      <3>3. Since(x) = r[3] /\ r[3] < clock
        BY <2>6, <3>1, <3>2
        DEF SinceFollows, Inv, OrdersInv, QueueMatchesOrders
      <3> QED
        BY <3>1, <3>3
    <2>9. Ledger!Wait(key, Lines'[key])
      BY <1>7, <1>9, <1>11, <1>12, <1>13, <1>14, <1>16, <2>8
      DEF Ledger!Wait, status
    <2> QED
      BY <1>8, <2>9 DEF Ledger!LedgerNext
  <1> QED
    BY <1>15, <1>16
(* An order that holds or awaits seats is refunded.                        *)
LEMMA RefundLedger ==
  ASSUME Inv, OrdersInv', refund = Idle, NEW o \in DOMAIN ticket_index,
         ticket_index[o].status # "REFUNDED", SameButStatus,
         LedgerStatus(o)' = "REFUNDED", ~Waits(o)',
         \A k \in DOMAIN ticket_index :
           k # o => /\ ticket_index'[k] = ticket_index[k]
                    /\ BeingRefunded(k)' <=> BeingRefunded(k),
         UNCHANGED <<released, trains, pending_queue>>
  PROVE  Ledger!LedgerNext
  <1>1. UNCHANGED OnSale
    BY SaleKept
  <1>2. \A k \in DOMAIN ticket_index : k # o => LedgerLine(k)' = LedgerLine(k)
    BY LineKept DEF Inv
  <1>3. Ledger!SetStatus(o, "REFUNDED")
    BY <1>1, <1>2, LineDecided DEF SameButStatus
  <1>4. Lines[o].status # "REFUNDED"
    BY LedgerLineFields DEF Lines, LedgerStatus, BeingRefunded
  <1>5. Ledger!Refund(o)
    BY <1>3, <1>4, SettledWhenIdle DEF Ledger!Refund
  <1> QED
    BY <1>5 DEF Ledger!LedgerNext, Lines

LEMMA RefundWaitingLedger ==
  ASSUME Inv, OrdersInv', NEW u \in Users, NEW n \in Nat \ {0},
         RefundWaiting(u, n)
  PROVE  Ledger!LedgerNext
  <1>1. PICK o : o = OrderKey(u, OrderNo(u, n))
    OBVIOUS
  <1>2. /\ o \in DOMAIN ticket_index
        /\ ticket_index[o].status = "PENDING"
        /\ ticket_index' =
             SetValue(ticket_index, o, WithStatus(ticket_index[o], "REFUNDED"))
        /\ refund = Idle
        /\ UNCHANGED <<released, trains, pending_queue, refund>>
    BY <1>1, OrderIsFound DEF RefundWaiting, Inv, trainVars
  <1>3. /\ SameButStatus /\ ticket_index'[o].status = "REFUNDED"
        /\ \A x \in DOMAIN ticket_index : x # o => ticket_index'[x] = ticket_index[x]
    BY <1>2, ChangeStatus DEF Status, Inv
  <1>4. LedgerStatus(o)' = "REFUNDED" /\ ~Waits(o)'
    BY <1>3 DEF LedgerStatus, Waits
  <1>5. \A k : BeingRefunded(k)' <=> BeingRefunded(k)
    BY <1>2 DEF BeingRefunded
  <1> QED
    BY <1>2, <1>3, <1>4, <1>5, RefundLedger

LEMMA RefundSoldLedger ==
  ASSUME Inv, OrdersInv', NEW u \in Users, NEW n \in Nat \ {0},
         RefundSold(u, n)
  PROVE  Ledger!LedgerNext
  <1>1. PICK o, no : no = OrderNo(u, n) /\ o = OrderKey(u, no)
    OBVIOUS
  <1>2. /\ o \in DOMAIN ticket_index
        /\ ticket_index[o].status = "SUCCESS"
        /\ refund' = [user |-> u, order_no |-> no, ticket |-> ticket_index[o],
                      next |-> 0, to_delete |-> {}]
        /\ refund = Idle
        /\ UNCHANGED <<released, trains, pending_queue, ticket_index>>
    BY <1>1, OrderIsFound DEF RefundSold, Inv
  <1>3. refund' # Idle
    <2>1. ticket_index[o] \in TicketInfos /\ no \in Int
      BY <1>1, <1>2, OrderIsFound
      DEF RefundSold, Inv, OrdersInv, TicketTypeOK
    <2>2. refund' \in Refunds
      BY <1>2, <2>1 DEF Refunds
    <2> QED
      BY <2>2, TicketAssumption
  <1>4. \A k : BeingRefunded(k)' <=> k = o
    BY <1>1, <1>2, <1>3 DEF BeingRefunded, OrderKey
  <1>5. LedgerStatus(o)' = "REFUNDED" /\ ~Waits(o)'
    BY <1>2, <1>4 DEF LedgerStatus, Waits
  <1> QED
    BY <1>2, <1>4, <1>5, SameOrders, RefundLedger DEF BeingRefunded, Inv

(* The scan promotes the order that has waited longest of those that fit.  *)
LEMMA PromoteLedger ==
  ASSUME Inv, OrdersInv', NEW k, PromoteEntry(k)
  PROVE  Ledger!LedgerNext
  <1>1. PICK o : o = EntryOrder(k)
    OBVIOUS
  <1>2. /\ ScanAt(k) /\ EntryFits(k) /\ Waits(o)
        /\ o \in DOMAIN ticket_index /\ k \in DOMAIN pending_queue
        /\ Queues(k, o) /\ refund # Idle
        /\ refund' = [refund EXCEPT !.next = k[3] + 1, !.to_delete = @ \cup {k}]
        /\ ticket_index' =
             SetValue(ticket_index, o, WithStatus(ticket_index[o], "SUCCESS"))
        /\ UNCHANGED <<released, trains, pending_queue>>
    BY <1>1, ScanFacts DEF PromoteEntry, Waits, Inv
  <1>3. /\ SameButStatus /\ ticket_index'[o].status = "SUCCESS"
        /\ \A x \in DOMAIN ticket_index : x # o => ticket_index'[x] = ticket_index[x]
    BY <1>2, ChangeStatus DEF Status, Inv
  <1>4. \A x : BeingRefunded(x)' <=> BeingRefunded(x)
    BY <1>2, MoveOn DEF BeingRefunded, OrderKey, Inv
  <1>5. ~BeingRefunded(o)
    BY <1>2 DEF BeingRefunded, Inv, OrdersInv, CopyIsCurrent, Waits
  <1>6. UNCHANGED OnSale
    BY <1>2, SaleKept
  <1>7. Ledger!SetStatus(o, "SUCCESS")
    <2>1. \A x \in DOMAIN ticket_index : x # o => LedgerLine(x)' = LedgerLine(x)
      BY <1>2, <1>3, <1>4, LineKept DEF Inv
    <2>2. LedgerStatus(o)' = "SUCCESS" /\ ~Waits(o)'
      BY <1>3, <1>4, <1>5 DEF LedgerStatus, Waits
    <2> QED
      BY <1>2, <1>3, <1>6, <2>1, <2>2, LineDecided DEF SameButStatus
  <1>8. Ledger!Pending(o)
    BY <1>2, <1>5, LedgerLineFields
    DEF Ledger!Pending, Lines, LedgerStatus, Waits
  <1>9. Ledger!HasSeats(Lines[o])
    BY <1>2, LineFits DEF EntryFits, OrderFits, Queues
  <1>10. SinceFollows
    BY SinceOfEntry DEF Inv, OrdersInv
  <1>11. /\ Lines[o].train = k[1] /\ Lines[o].date = k[2]
         /\ Lines[o].since = k[3] /\ k[3] \in Nat
    BY <1>1, <1>2, <1>10, LedgerLineFields
    DEF Lines, Queues, SinceFollows, Inv, OrdersInv, TicketTypeOK
  <1>12. ASSUME NEW x \in DOMAIN Lines, Ledger!Pending(x),
                Lines[x].train = Lines[o].train, Lines[x].date = Lines[o].date,
                Lines[x].since < Lines[o].since
         PROVE  ~Ledger!HasSeats(Lines[x])
    <2>1. /\ x \in DOMAIN ticket_index /\ Waits(x)
          /\ Lines[x].train = ticket_index[x].train_id
          /\ Lines[x].date = ticket_index[x].date /\ Lines[x].since = Since(x)
      BY <1>12, LedgerLineFields DEF Lines, Ledger!Pending, LedgerStatus, Waits
    <2>2. PICK q \in DOMAIN pending_queue : Queues(q, x)
      BY <2>1 DEF Inv, OrdersInv, QueueMatchesOrders
    <2>3. EntryOrder(q) = x /\ Waits(EntryOrder(q)) /\ q[3] \in Nat
      BY <2>1, <2>2 DEF Queues, Inv, OrdersInv, TicketTypeOK
    <2>4. q[3] < k[3]
      BY <1>10, <1>11, <1>12, <2>1, <2>3 DEF SinceFollows
    <2>5. q \notin Remaining
      BY <1>2, <1>11, <2>3, <2>4 DEF ScanAt
    <2>6. ~EntryFits(q)
      BY <2>3, <2>5 DEF Inv, PassedDontFit, Passed
    <2>7. ~OrderFits(x)
      BY <2>2, <2>6 DEF EntryFits, OrderFits, Queues
    <2> QED
      BY <2>1, <2>7, LineFits
  <1>13. Ledger!Promote(o)
    BY <1>7, <1>8, <1>9, <1>12 DEF Ledger!Promote
  <1> QED
    BY <1>2, <1>13 DEF Ledger!LedgerNext, Lines
(* A train is put on sale; the other commands for trains sell nothing.     *)
LEMMA TrainStepLedger ==
  ASSUME Inv, OrdersInv', TrainStep
  PROVE  Ledger!LedgerNext \/ UNCHANGED <<OnSale, Lines>>
  <1>1. /\ refund = Idle /\ UNCHANGED ticketVars
        /\ \A id \in released : id \in released' /\ trains'[id] = trains[id]
    BY TrainCommandKeeps DEF TrainStep, Inv, BaseInv
  <1>2. Lines' = Lines
    <2>1. \A k \in DOMAIN ticket_index : LedgerLine(k)' = LedgerLine(k)
      BY <1>1, LineKept DEF ticketVars, BeingRefunded, Inv
    <2> QED
      BY <1>1, <2>1, LinesKept DEF ticketVars
  <1>3. CASE released' = released
    BY <1>1, <1>2, <1>3, SaleKept
  <1>4. ASSUME NEW name \in TrainNames, ReleaseTrain(name)
        PROVE  Ledger!LedgerNext
    <2>1. PICK id : id \notin released /\ released' = released \cup {id}
      BY <1>4 DEF ReleaseTrain
    <2>2. /\ DOMAIN OnSale' = DOMAIN OnSale \cup {id} /\ id \notin DOMAIN OnSale
          /\ \A x \in DOMAIN OnSale : OnSale'[x] = OnSale[x]
      BY <1>1, <2>1 DEF OnSale, SaleOf
    <2>3. Ledger!OpenSale(id)
      BY <1>1, <1>2, <2>2, SettledWhenIdle DEF Ledger!OpenSale
    <2> QED
      BY <2>2, <2>3 DEF Ledger!LedgerNext
  <1> QED
    BY <1>3, <1>4 DEF TrainStep, TrainCommand, AddTrain, DeleteTrain

(* Everything is forgotten.                                                *)
LEMMA CleanLedger ==
  ASSUME Inv, Clean
  PROVE  Ledger!LedgerNext
  <1>1. released' = {} /\ DOMAIN ticket_index' = {} /\ refund = Idle
    BY DEF Clean, TrainClean, EmptyMap
  <1>2. Ledger!Forget
    BY <1>1, SettledWhenIdle DEF Ledger!Forget, OnSale, Lines
  <1> QED
    BY <1>2 DEF Ledger!LedgerNext

(* Steps the ledger does not see: sessions, entries that are passed over,  *)
(* and the end of a refund, whose line is refunded already.                *)
LEMMA UnseenSteps ==
  ASSUME Inv, OrdersInv',
         \/ UserStep \/ Restart \/ UNCHANGED vars
         \/ \E k \in DOMAIN pending_queue : SkipEntry(k) \/ DropEntry(k)
         \/ FinishRefund
  PROVE  UNCHANGED <<OnSale, Lines>>
  <1>1. CASE UserStep \/ Restart \/ UNCHANGED vars
    <2>1. UNCHANGED <<trainVars, ticketVars>>
      BY <1>1 DEF UserStep, Restart, vars
    <2>2. UNCHANGED OnSale
      BY <2>1, SaleKept DEF trainVars
    <2>3. \A k \in DOMAIN ticket_index : LedgerLine(k)' = LedgerLine(k)
      BY <2>1, LineKept DEF ticketVars, BeingRefunded, Inv
    <2> QED
      BY <2>1, <2>2, <2>3, LinesKept DEF ticketVars
  <1>2. ASSUME NEW q \in DOMAIN pending_queue, SkipEntry(q) \/ DropEntry(q)
        PROVE  UNCHANGED <<OnSale, Lines>>
    <2>1. /\ ScanAt(q) /\ refund # Idle
          /\ UNCHANGED <<trains, released, pending_queue, ticket_index>>
      BY <1>2, ScanFacts DEF SkipEntry, DropEntry, Inv
    <2>2. \A k : BeingRefunded(k)' <=> BeingRefunded(k)
      BY <1>2, <2>1, MoveOn
      DEF SkipEntry, DropEntry, BeingRefunded, OrderKey, Inv
    <2>3. \A k \in DOMAIN ticket_index : LedgerLine(k)' = LedgerLine(k)
      BY <2>1, <2>2, LineKept DEF Inv
    <2> QED
      BY <2>1, <2>3, SaleKept, LinesKept
  <1>3. CASE FinishRefund
    <2>1. PICK o : o = OrderKey(refund.user, refund.order_no)
      OBVIOUS
    <2>2. /\ o \in DOMAIN ticket_index /\ ticket_index[o].status = "SUCCESS"
          /\ ticket_index' =
               SetValue(ticket_index, o, WithStatus(ticket_index[o], "REFUNDED"))
          /\ refund # Idle /\ refund' = Idle /\ UNCHANGED trainVars
          /\ DOMAIN pending_queue' = DOMAIN pending_queue \ ToDelete
          /\ \A q \in DOMAIN pending_queue' :
               pending_queue'[q] = pending_queue[q]
      BY <1>3, <2>1
      DEF Inv, OrdersInv, CopyIsCurrent, FinishRefund, Remove, ToDelete
    <2>3. /\ SameButStatus /\ ticket_index'[o].status = "REFUNDED"
          /\ \A x \in DOMAIN ticket_index :
               x # o => ticket_index'[x] = ticket_index[x]
      BY <2>2, ChangeStatus DEF Status, Inv
    <2>4. \A k : ~BeingRefunded(k)' /\ (BeingRefunded(k) <=> k = o)
      BY <2>1, <2>2 DEF BeingRefunded
    <2>5. ASSUME NEW k \in DOMAIN ticket_index, k # o
          PROVE  LedgerLine(k)' = LedgerLine(k)
      BY <2>2, <2>3, <2>4, <2>5, LineKept DEF Inv
    <2>6. LedgerLine(o)' = LedgerLine(o)
      <3>1. LedgerStatus(o)' = LedgerStatus(o)
        BY <2>3, <2>4 DEF LedgerStatus
      <3>2. Since(o)' = Since(o)
        BY <2>2, <2>3 DEF Since, Waits
      <3> QED
        BY <2>2, <2>3, <3>1, <3>2 DEF LedgerLine, SameButStatus
    <2>7. UNCHANGED OnSale
      BY <2>2, SaleKept DEF trainVars
    <2> QED
      BY <2>3, <2>5, <2>6, <2>7, LinesKept DEF SameButStatus
  <1> QED
    BY <1>1, <1>2, <1>3

LEMMA NextLedger ==
  ASSUME ProperOrderNos, Inv, [Next]_vars
  PROVE  [Ledger!LedgerNext]_<<OnSale, Lines>>
  <1>1. OrdersInv'
    BY OrdersNext DEF Inv
  <1>2. ASSUME NEW u \in Users, NEW name \in TrainNames, NEW date \in BuyDates,
               NEW s \in Stations, NEW e \in Stations, NEW num \in SeatNos,
               NEW agree \in BOOLEAN,
               BuyTicket(u, name, date, s, e, num, agree)
        PROVE  Ledger!LedgerNext
    BY <1>1, <1>2, BuyTicketPlaces, BuyTicketLedger DEF Inv
  <1>3. ASSUME NEW u \in Users, NEW n \in OrderNos,
               RefundWaiting(u, n) \/ RefundSold(u, n)
        PROVE  Ledger!LedgerNext
    BY <1>1, <1>3, RefundWaitingLedger, RefundSoldLedger DEF ProperOrderNos
  <1>4. ASSUME NEW k \in DOMAIN pending_queue, PromoteEntry(k)
        PROVE  Ledger!LedgerNext
    BY <1>1, <1>4, PromoteLedger
  <1>5. CASE TrainStep
    BY <1>1, <1>5, TrainStepLedger
  <1>6. CASE Clean
    BY <1>6, CleanLedger
  <1>7. CASE \/ UserStep \/ Restart \/ UNCHANGED vars
             \/ \E k \in DOMAIN pending_queue : SkipEntry(k) \/ DropEntry(k)
             \/ FinishRefund
    BY <1>1, <1>7, UnseenSteps
  <1> QED
    BY <1>2, <1>3, <1>4, <1>5, <1>6, <1>7 DEF Next, RefundStep

(* The program implements the ledger, whatever the users, trains, dates    *)
(* and numbers of seats: it begins with an empty one, and each of its      *)
(* steps books, queues, refunds or serves an order as the ledger would, or *)
(* leaves the ledger alone.                                                *)
THEOREM ProgramImplementsLedger ==
  ASSUME ProperOrderNos
  PROVE  Spec => Ledger!LedgerSafety
  <1>1. Init => Ledger!LedgerInit
    BY DEF Init, TrainInit, EmptyMap, Ledger!LedgerInit, OnSale, Lines
  <1>2. Init => FewOrders /\ Conserved
    <2> SUFFICES ASSUME Init PROVE FewOrders /\ Conserved
      OBVIOUS
    <2>1. DOMAIN ticket_index = {} /\ released = {}
      BY DEF Init, TrainInit, EmptyMap
    <2> QED
      BY <2>1, FS_EmptySet DEF FewOrders, Conserved
  <1>3. BaseInv /\ OrdersInv /\ SeatsNat /\ FewOrders /\ Conserved /\ [Next]_vars
          => FewOrders' /\ Conserved'
    BY ConservesNext
  <1>4. Spec => []Inv
    BY <1>2, <1>3, QueueIsServed, PTL DEF Spec, Inv
  <1>5. Inv /\ [Next]_vars => [Ledger!LedgerNext]_Ledger!ledgerVars
    BY NextLedger DEF Ledger!ledgerVars
  <1> QED
    BY <1>1, <1>4, <1>5, PTL DEF Spec, Ledger!LedgerSafety
=============================================================================
