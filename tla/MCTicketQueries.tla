-------------------------- MODULE MCTicketQueries ---------------------------
(* One user and one train with two seats, three stations and two days on  *)
(* sale, in different batches: from "b" the train leaves after midnight,   *)
(* so that one date of buy_ticket is two days of departure.                *)
EXTENDS TicketQueries, TLC

Train ==
  [station_count |-> 3, seat_count |-> 2, depart_time |-> ParseTime(<<23, 0>>),
   stations |-> (0 :> "a" @@ 1 :> "b" @@ 2 :> "c"),
   travel |-> <<50, 30>>, stopover |-> <<20>>, prices |-> <<3, 4>>,
   date_beg |-> ParseDate(<<6, 30>>), date_end |-> ParseDate(<<7, 1>>)]

MCTrainInputs == {Train}
MCPrivileges == {0}
MCLeftovers == {}
MCQueryDays == {<<6, 30>>, <<7, 1>>}
MCBuyDates == {ParseDate(<<7, 1>>)}

(* What the theorems about the queries and the orders suppose.             *)
ASSUME TimetablesAreProper == ProperTimetables
ASSUME BuyersAskFirst == BuysAsked /\ OrderNos \subseteq Nat \ {0}
=============================================================================
