---------------------------- MODULE TicketLedger ----------------------------
(***************************************************************************)
(* The program implements the ledger.  An order is refunded, for the       *)
(* ledger, from the moment its seats are given back, although the index    *)
(* says so only when the handler ends; an order that waits came at the     *)
(* timestamp of its entry in the queue.                                    *)
(***************************************************************************)
EXTENDS TicketSystem

LedgerStatus(k) ==
  IF BeingRefunded(k) THEN "REFUNDED" ELSE ticket_index[k].status

Since(k) ==
  IF Waits(k)
    THEN (CHOOSE q \in DOMAIN pending_queue : EntryOrder(q) = k)[3]
    ELSE 0

LedgerLine(k) ==
  LET t == ticket_index[k]
  IN [status |-> LedgerStatus(k), train |-> t.train_id, date |-> t.date,
      from |-> t.from, to |-> t.to, seats |-> t.seat_count,
      since |-> Since(k)]

SaleOf(id) ==
  [seats |-> trains[id].seat_count, legs |-> trains[id].station_count - 1,
   days |-> trains[id].date_beg .. trains[id].date_end]

OnSale == [id \in released |-> SaleOf(id)]

Lines == [k \in DOMAIN ticket_index |-> LedgerLine(k)]

Ledger == INSTANCE SeatLedger WITH on_sale <- OnSale, ledger <- Lines

(* Seen from outside, buying, waiting, refunding and serving the queue are *)
(* the steps of the ledger: each order is decided by counting the sold     *)
(* lines, the longest waiting order that fits is served first, and no      *)
(* other step comes before the queue is settled.  Serving the queue does   *)
(* not stop half way.                                                      *)
ImplementsLedger == Ledger!LedgerSpec
=============================================================================
