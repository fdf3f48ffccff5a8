---------------------------- MODULE MCSessions ------------------------------
(* Two users, two orders each, one seat of one leg on one day: orders of   *)
(* one user wait for a refund of the other, sessions end and the program   *)
(* is restarted between them.  The other date given is before the sale.    *)
EXTENDS TicketSystem, TLC

Train ==
  [station_count |-> 2, seat_count |-> 1, depart_time |-> 600,
   stations |-> (0 :> "a" @@ 1 :> "b"),
   travel |-> <<50>>, stopover |-> << >>, prices |-> <<3>>,
   date_beg |-> 1, date_end |-> 1]

MCTrainInputs == {Train}
MCPrivileges == {0}
MCLeftovers == {}
=============================================================================
