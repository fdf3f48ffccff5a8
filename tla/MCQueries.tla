------------------------------ MODULE MCQueries ------------------------------
(* Three names, three records and three timetables over four stations.     *)
(* The batches have two days, so that trains on sale for three days span   *)
(* two batches and start or end inside one.  Evening and Shuttle cross     *)
(* midnight at the end of July.  They are equally fast from "b" to "c",    *)
(* and who goes from "a" to "d" can change at "b" or at "c" into the same  *)
(* Shuttle.  Coast runs back from "c" to "b", leaves earlier in the day    *)
(* than Evening arrives, and begins its sale later.                        *)
EXTENDS Queries, TLC

Evening ==
  [station_count |-> 3, seat_count |-> 2, depart_time |-> ParseTime(<<23, 0>>),
   stations |-> (0 :> "a" @@ 1 :> "b" @@ 2 :> "c"),
   travel |-> <<50, 1440>>, stopover |-> <<20>>, prices |-> <<3, 4>>,
   date_beg |-> ParseDate(<<7, 30>>), date_end |-> ParseDate(<<8, 1>>)]

Shuttle ==
  [station_count |-> 3, seat_count |-> 1, depart_time |-> 0,
   stations |-> (0 :> "b" @@ 1 :> "c" @@ 2 :> "d"),
   travel |-> <<1440, 30>>, stopover |-> <<1440>>, prices |-> <<1, 1>>,
   date_beg |-> ParseDate(<<7, 31>>), date_end |-> ParseDate(<<8, 2>>)]

Coast ==
  [station_count |-> 2, seat_count |-> 1, depart_time |-> ParseTime(<<0, 9>>),
   stations |-> (0 :> "c" @@ 1 :> "b"),
   travel |-> <<30>>, stopover |-> << >>, prices |-> <<2>>,
   date_beg |-> ParseDate(<<8, 3>>), date_end |-> ParseDate(<<8, 4>>)]

MCTrainInputs == {Evening, Shuttle, Coast}
MCQueryDays == {<<7, 31>>, <<8, 1>>}

(* The theorems about the queries suppose this of the timetables.          *)
ASSUME TimetablesAreProper == ProperTimetables
=============================================================================
