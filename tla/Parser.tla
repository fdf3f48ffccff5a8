------------------------------- MODULE Parser --------------------------------
(***************************************************************************)
(* Dates and times of parser.cpp.  Commands give a date as month and day   *)
(* and a time as hour and minute; inside the program a date is a day from  *)
(* the 1st of June on and a point of time is a number of minutes from its  *)
(* midnight on.  Digits and punctuation are left out: a string "mm-dd" is  *)
(* the pair <<month, day>>.                                                *)
(***************************************************************************)
EXTENDS Integers, Sequences

FirstDay == [month \in 6 .. 9 |-> <<0, 30, 61, 92>>[month - 5]]

(* Dates before June are -1, those after September one past its last day.  *)
ParseDate(d) ==
  CASE d[1] < 6 -> -1
    [] d[1] \in 6 .. 9 -> FirstDay[d[1]] + d[2] - 1
    [] d[1] > 9 -> 122

DateString(date) ==
  LET month == CASE date < 30 -> 6 [] date \in 30 .. 60 -> 7
                 [] date \in 61 .. 91 -> 8 [] date > 91 -> 9
  IN  <<month, date - FirstDay[month] + 1>>

ParseTime(t) == t[1] * 60 + t[2]

TimeString(time) == <<time \div 60, time % 60>>

DateTimeString(datetime) ==
  IF datetime = -1 THEN <<>>
  ELSE DateString(datetime \div 1440) \o TimeString(datetime % 1440)

=============================================================================
