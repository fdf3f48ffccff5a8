--------------------------- MODULE TicketQueries ----------------------------
(***************************************************************************)
(* query_order, and the queries of the trains while seats are bought and   *)
(* given back: what a user is shown, buys and is shown again.              *)
(***************************************************************************)
EXTENDS TicketSystem, Queries

OrderLine(t) ==
  [status |-> t.status, train |-> trains[t.train_id].train_name,
   from |-> trains[t.train_id].stations[t.from],
   leaves |-> DateTimeString(GetLeaveTime(t.train_id, t.date, t.from)),
   to |-> trains[t.train_id].stations[t.to],
   arrives |-> DateTimeString(GetArriveTime(t.train_id, t.date, t.to)),
   price |-> GetPrice(t.train_id, t.from, t.to), num |-> t.seat_count]

(* Mutant: the orders in the order they were made.                         *)
QueryOrderOldestFirst(u) ==
  LET mine == {k \in DOMAIN ticket_index : k[1] = u}
      keys == CHOOSE met \in [1 .. Cardinality(mine) -> mine] :
                \A i, j \in DOMAIN met : i < j => met[i][2] > met[j][2]
  IN  IF ~LoggedIn(u) THEN [count |-> 0, orders |-> Nothing]
      ELSE [count |-> logged_in_users[u].order_count,
            orders |-> [n \in DOMAIN keys |-> OrderLine(ticket_index[keys[n]])]]

(* The iterator begins at the least key of the user, the latest order.     *)
QueryOrder(u) ==
  LET mine == {k \in DOMAIN ticket_index : k[1] = u}
      keys == CHOOSE met \in [1 .. Cardinality(mine) -> mine] :
                \A i, j \in DOMAIN met : i < j => met[i][2] < met[j][2]
  IN  IF ~LoggedIn(u) THEN [count |-> 0, orders |-> Nothing]
      ELSE [count |-> logged_in_users[u].order_count,
            orders |-> [n \in DOMAIN keys |-> OrderLine(ticket_index[keys[n]])]]

-----------------------------------------------------------------------------
(* A line of query_ticket is two rows of query_train for the day the train *)
(* sets out: with its times, the difference of its prices and the seats of *)
(* the fullest leg in between; and the seats of those rows are the ones    *)
(* that no order sold has.                                                 *)
RowsTell(line, s, e, day) ==
  LET rows == QueryTrain(line.train, day)
      id == train_id_index[line.train]
  IN  \E a, b \in DOMAIN rows :
        /\ a < b /\ rows[a].station = s /\ rows[b].station = e
        /\ rows[a].leaves = line.leaves /\ rows[b].arrives = line.arrives
        /\ rows[b].price - rows[a].price = line.price
        /\ line.seats = Sets!Min({rows[k].seats[1] : k \in a .. b - 1})
        /\ \A k \in a .. b - 1 :
             rows[k].seats[1] =
               trains[id].seat_count - Cardinality(HeldSeats(id, day, k - 1))

(* query_train and query_ticket tell the same story, for a day n days      *)
(* before, and a true one, at every moment of purchases, refunds and       *)
(* promotions: minima over flat arrays of batches, for a day computed back *)
(* from a station, against the seats of the orders.                        *)
TrainAndTicketAgree ==
  \A s, e \in QueryStations, d \in QueryDays :
    LET lines == QueryTicket(s, e, ParseDate(d), FALSE)
    IN  \A i \in DOMAIN lines : \E n \in 0 .. ParseDate(d) :
          RowsTell(lines[i], s, e, ParseDate(d) - n)

(* One of the lines query_ticket prints is the order, but for its status.  *)
Offered(order, d) ==
  LET lines == QueryTicket(order.from, order.to, ParseDate(d), FALSE)
  IN  \E i \in DOMAIN lines :
        /\ order.train = lines[i].train
        /\ order.leaves = lines[i].leaves /\ order.arrives = lines[i].arrives
        /\ order.price = lines[i].price
        /\ order.status = "SUCCESS" <=> order.num <= lines[i].seats

(* Whatever is asked of buy_ticket is asked of query_ticket too.           *)
BuysAsked ==
  /\ Stations \subseteq QueryStations
  /\ \A date \in BuyDates : date >= 0 => \E d \in QueryDays : ParseDate(d) = date

OffersKept(u) ==
  Cardinality({k \in DOMAIN ticket_index' : k[1] = u})
    > Cardinality({k \in DOMAIN ticket_index : k[1] = u}) =>
  \E order \in {QueryOrder(u)'.orders[1]}, d \in QueryDays : Offered(order, d)

(* A ticket is what was offered.  A new order is, in query_order's words,  *)
(* a line query_ticket would have printed just before, with the same train *)
(* and times, and it has its seats at once exactly if query_ticket showed  *)
(* that many: two handlers that compute the day and read the seats each in *)
(* their own way.                                                          *)
TicketAsOffered == [][\A u \in Users : OffersKept(u)]_vars
=============================================================================
