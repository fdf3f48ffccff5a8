-------------------------- MODULE MCRefundDefault ---------------------------
(* refund_ticket without -n: cli.cpp passes 0, which is the number of no   *)
(* order, and the handler goes on with whatever its local variable holds;  *)
(* here it holds what an order that waits would leave behind.              *)
EXTENDS TicketSystem, TLC

Train ==
  [station_count |-> 2, seat_count |-> 1, depart_time |-> 600,
   stations |-> (0 :> "a" @@ 1 :> "b"),
   travel |-> <<50>>, stopover |-> << >>, prices |-> <<3>>,
   date_beg |-> 1, date_end |-> 1]

MCTrainInputs == {Train}
MCPrivileges == {0}
MCLeftovers == {TicketInfo("PENDING", 1, 1, 0, 1, 1)}
=============================================================================
