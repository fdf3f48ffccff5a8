--------------------------- MODULE MCTicketLedger ---------------------------
(* One user, four orders, one leg, one day, two seats: enough for a queue  *)
(* whose first entry does not fit and whose second does.                   *)
EXTENDS TicketLedger, TLC

Train ==
  [station_count |-> 2, seat_count |-> 2, depart_time |-> 600,
   stations |-> (0 :> "a" @@ 1 :> "b"),
   travel |-> <<50>>, stopover |-> << >>, prices |-> <<3>>,
   date_beg |-> 1, date_end |-> 1]

MCTrainInputs == {Train}
MCPrivileges == {0}
MCLeftovers == {}
=============================================================================
