----------------------------- MODULE MCLongTrain ----------------------------
(* A train on its way for more than 32767 minutes, a little under 23 days. *)
EXTENDS TrainManager, TLC

Long ==
  [station_count |-> 4, seat_count |-> 1, depart_time |-> 0,
   stations |-> (0 :> "a" @@ 1 :> "b" @@ 2 :> "c" @@ 3 :> "d"),
   travel |-> <<10000, 10000, 10000>>, stopover |-> <<2000, 2000>>,
   prices |-> <<1, 1, 1>>, date_beg |-> 0, date_end |-> 0]

MCTrainInputs == {Long}
=============================================================================
