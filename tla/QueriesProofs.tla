---------------------------- MODULE QueriesProofs ----------------------------
(***************************************************************************)
(* What the queries print, for any trains, stations and days: the lines of *)
(* query_ticket are the rides that exist, the change of query_transfer is  *)
(* the best there is, and query_train tells the same story.                *)
(***************************************************************************)
EXTENDS TicketQueries, TicketSystemProofs, UtilityProofs, FunctionTheorems,
        SequenceTheorems

(* A loop that carries a value through n turns: the function that lists    *)
(* the values it had exists.                                               *)
Turns(f, base, step, n) ==
  f[0] = base /\ \A k \in 1 .. n : f[k] = step[<<f[k - 1], k>>]

LEMMA LoopExists ==
  ASSUME NEW E, NEW base \in E, NEW n \in Nat, NEW step \in [E \X (1 .. n) -> E]
  PROVE  \E f \in [0 .. n -> E] : Turns(f, base, step, n)
  <1> DEFINE S == {m \in Nat : m <= n =>
                     \E f \in [0 .. m -> E] : Turns(f, base, step, m)}
  <1>1. 0 \in S
    <2>1. [k \in 0 .. 0 |-> base] \in [0 .. 0 -> E]
      OBVIOUS
    <2>2. Turns([k \in 0 .. 0 |-> base], base, step, 0)
      BY DEF Turns
    <2> QED
      BY <2>1, <2>2
  <1>2. ASSUME NEW m \in Nat, m \in S
        PROVE  m + 1 \in S
    <2> SUFFICES ASSUME m + 1 <= n
                 PROVE  \E f \in [0 .. m + 1 -> E] : Turns(f, base, step, m + 1)
      OBVIOUS
    <2>1. PICK f \in [0 .. m -> E] : Turns(f, base, step, m)
      BY <1>2
    <2> DEFINE next == step[<<f[m], m + 1>>]
               g == [k \in 0 .. m + 1 |-> IF k = m + 1 THEN next ELSE f[k]]
    <2>2. next \in E
      OBVIOUS
    <2>3. g \in [0 .. m + 1 -> E]
      BY <2>2
    <2>4. \A k \in 0 .. m : g[k] = f[k]
      OBVIOUS
    <2>5. g[m + 1] = step[<<f[m], m + 1>>]
      OBVIOUS
    <2> HIDE DEF g, next
    <2>6. ASSUME NEW k \in 1 .. m + 1
          PROVE  g[k] = step[<<g[k - 1], k>>]
      <3>1. CASE k = m + 1
        <4>1. k - 1 = m /\ g[m] = f[m]
          BY <3>1, <2>4
        <4>2. <<g[k - 1], k>> = <<f[m], m + 1>>
          BY <4>1, <3>1
        <4> QED
          BY <3>1, <4>2, <2>5
      <3>2. CASE k \in 1 .. m
        BY <3>2, <2>1, <2>4 DEF Turns
      <3> QED
        BY <3>1, <3>2
    <2>7. g[0] = base
      BY <2>1, <2>4 DEF Turns
    <2> QED
      BY <2>3, <2>6, <2>7 DEF Turns
  <1>3. n \in S
    <2> HIDE DEF S
    <2> QED
      BY <1>1, <1>2, FromZeroOn
  <1> QED
    BY <1>3

(* What holds at first and after each turn holds up to the last.           *)
LEMMA EveryTurn ==
  ASSUME NEW n \in Nat, NEW S, 0 \in S, \A k \in 1 .. n : k - 1 \in S => k \in S
  PROVE  0 .. n \subseteq S
  <1> DEFINE T == {m \in Nat : m <= n => m \in S}
  <1>1. 0 \in T
    OBVIOUS
  <1>2. \A m \in Nat : m \in T => m + 1 \in T
    OBVIOUS
  <1> HIDE DEF T
  <1>3. Nat \subseteq T
    BY <1>1, <1>2, FromZeroOn
  <1> QED
    BY <1>3 DEF T

-----------------------------------------------------------------------------
(* The records of the trains.                                              *)

(* Where time_t wraps, under a name: the provers count to a number.        *)
Limit == 32768

Times == -Limit .. Limit - 1

LEMMA LimitHalves == 65536 = 2 * Limit /\ Limit \in Nat /\ Limit > 0
  BY SMT DEF Limit

LEMMA WrapBounds ==
  ASSUME NEW x \in Int
  PROVE  Int16(x) \in Times
  <1>1. Int16(x) = ((x + Limit) % 65536) - Limit
    BY DEF Int16, Limit
  <1>2. ASSUME NEW w \in Nat \ {0}, NEW y \in Int
        PROVE  y % w \in 0 .. w - 1
    BY Z3
  <1>3. (x + Limit) % (2 * Limit) \in 0 .. 2 * Limit - 1
    BY <1>2, LimitHalves
  <1> QED
    BY <1>1, <1>3, LimitHalves DEF Times

LEMMA WrapNothing ==
  ASSUME NEW x \in Times
  PROVE  Int16(x) = x
  <1>1. Int16(x) = ((x + Limit) % 65536) - Limit
    BY DEF Int16, Limit
  <1>2. ASSUME NEW w \in Nat \ {0}, NEW y \in 0 .. w - 1
        PROVE  y % w = y
    BY Z3
  <1>3. x + Limit \in 0 .. 2 * Limit - 1 /\ x \in Int
    BY LimitHalves DEF Times
  <1>4. (x + Limit) % (2 * Limit) = x + Limit
    BY <1>2, <1>3, LimitHalves
  <1> QED
    BY <1>1, <1>3, <1>4, LimitHalves

StationNos(id) == 0 .. trains[id].station_count - 1

(* What the queries need of a record.                                      *)
Regular(id) ==
  /\ trains[id].station_count \in Nat /\ trains[id].station_count >= 2
  /\ trains[id].date_beg \in Nat /\ trains[id].date_end \in Nat
  /\ trains[id].depart_time \in 0 .. 1439
  /\ \A i, j \in StationNos(id) :
       trains[id].stations[i] = trains[id].stations[j] => i = j
  /\ \A i \in StationNos(id) :
       /\ trains[id].leave_time[i] \in 0 .. Limit - 1
       /\ trains[id].price[i] \in Int
  /\ trains[id].leave_time[0] = 0
  /\ \A i \in StationNos(id) \ {0} : trains[id].arrive_time[i] \in 0 .. Limit - 1

LEMMA TotalsOfPrices ==
  ASSUME NEW t, t.station_count \in Nat, t.station_count >= 2,
         \A i \in 1 .. t.station_count - 1 : t.prices[i] \in Int
  PROVE  \A i \in 0 .. t.station_count - 1 : Price(t)[i] \in Int
  <1> DEFINE n == t.station_count - 1
             step == [x \in Int \X (1 .. n) |-> x[1] + t.prices[x[2]]]
             Body(f) == [i \in 0 .. n |-> IF i = 0 THEN 0 ELSE f[i - 1] + t.prices[i]]
  <1>1. n \in Nat /\ 0 \in Int /\ step \in [Int \X (1 .. n) -> Int]
    OBVIOUS
  <1>2. PICK f \in [0 .. n -> Int] : Turns(f, 0, step, n)
    <2> HIDE DEF step, n
    <2> QED
      BY <1>1, LoopExists
  <1>3. ASSUME NEW i \in 1 .. n PROVE f[i] = f[i - 1] + t.prices[i]
    <2>1. f[i] = step[<<f[i - 1], i>>] /\ f[i - 1] \in Int
      <3> HIDE DEF step, n
      <3>1. i - 1 \in 0 .. n
        BY <1>1
      <3> QED
        BY <1>1, <1>2, <3>1 DEF Turns
    <2> QED
      BY <2>1
  <1>4. f = Body(f)
    BY <1>2, <1>3 DEF Turns
  <1>5. Price(t) = CHOOSE g : g = Body(g)
    BY DEF Price
  <1>6. Price(t) = Body(Price(t))
    BY <1>4, <1>5
  <1> DEFINE P == Price(t)
             S == {i \in 0 .. n : P[i] \in Int}
  <1>7. 0 \in S /\ \A k \in 1 .. n : k - 1 \in S => k \in S
    BY <1>6
  <1>8. 0 .. n \subseteq S
    <2> HIDE DEF S, n
    <2> QED
      BY <1>1, <1>7, EveryTurn
  <1> QED
    BY <1>8

LEMMA TotalsOfTimes ==
  ASSUME NEW t, t.station_count \in Nat, t.station_count >= 2,
         \A i \in 1 .. t.station_count - 1 :
           t.travel[i] \in Int /\ Stopover(t, i) \in Int
  PROVE  /\ LeaveTime(t)[0] = 0
         /\ \A i \in 0 .. t.station_count - 1 : LeaveTime(t)[i] \in Times
         /\ \A i \in 1 .. t.station_count - 1 : ArriveTime(t)[i] \in Times
  <1> DEFINE n == t.station_count - 1
             step == [x \in Int \X (1 .. n) |->
                        Int16(x[1] + t.travel[x[2]] + Stopover(t, x[2]))]
             Body(f) == [i \in 0 .. n |->
                           IF i = 0 THEN 0
                           ELSE Int16(f[i - 1] + t.travel[i] + Stopover(t, i))]
  <1>0. \A x \in Int : Int16(x) \in Int
    BY WrapBounds, LimitHalves DEF Times
  <1>1. n \in Nat /\ 0 \in Int /\ step \in [Int \X (1 .. n) -> Int]
    BY <1>0
  <1>2. PICK f \in [0 .. n -> Int] : Turns(f, 0, step, n)
    <2> HIDE DEF step, n
    <2> QED
      BY <1>1, LoopExists
  <1>3. ASSUME NEW i \in 1 .. n
        PROVE f[i] = Int16(f[i - 1] + t.travel[i] + Stopover(t, i))
    <2>1. f[i] = step[<<f[i - 1], i>>] /\ f[i - 1] \in Int
      <3> HIDE DEF step, n
      <3>1. i - 1 \in 0 .. n
        BY <1>1
      <3> QED
        BY <1>1, <1>2, <3>1 DEF Turns
    <2> QED
      BY <2>1
  <1>4. f = Body(f)
    BY <1>2, <1>3 DEF Turns
  <1>5. LeaveTime(t) = CHOOSE g : g = Body(g)
    BY DEF LeaveTime
  <1>6. LeaveTime(t) = Body(LeaveTime(t))
    BY <1>4, <1>5
  <1> DEFINE P == LeaveTime(t)
             S == {i \in 0 .. n : P[i] \in Times}
  <1>7. 0 \in S /\ \A k \in 1 .. n : k - 1 \in S => k \in S
    <2>1. 0 \in S
      BY <1>6, LimitHalves DEF Times
    <2>2. ASSUME NEW k \in 1 .. n, k - 1 \in S PROVE k \in S
      <3>1. P[k] = Int16(P[k - 1] + t.travel[k] + Stopover(t, k))
        BY <1>6
      <3>2. P[k - 1] + t.travel[k] + Stopover(t, k) \in Int
        BY <2>2, LimitHalves DEF Times
      <3> QED
        BY <3>1, <3>2, WrapBounds
    <2> QED
      BY <2>1, <2>2
  <1>8. 0 .. n \subseteq S
    <2> HIDE DEF S, n
    <2> QED
      BY <1>1, <1>7, EveryTurn
  <1>9. ASSUME NEW i \in 1 .. n PROVE ArriveTime(t)[i] \in Times
    <2>1. LeaveTime(t)[i] - Stopover(t, i) \in Int
      BY <1>8, LimitHalves DEF Times
    <2>2. ArriveTime(t)[i] = Int16(LeaveTime(t)[i] - Stopover(t, i))
      BY DEF ArriveTime
    <2> QED
      BY <2>1, <2>2, WrapBounds
  <1>10. LeaveTime(t)[0] = 0
    BY <1>6
  <1> QED
    BY <1>8, <1>9, <1>10

LEMMA RecordsRegular ==
  ASSUME ProperTimetables, TrainTypeOK, RecordsFromInput, NEW id \in DOMAIN trains
  PROVE  Regular(id)
  <1>1. PICK name \in TrainNames, t \in TrainInputs : trains[id] = TrainInfo(name, t)
    BY DEF RecordsFromInput
  <1>2. IsTrainInput(t)
    BY TrainAssumption
  <1>3. /\ trains[id].station_count = t.station_count
        /\ trains[id].stations = t.stations
        /\ trains[id].date_beg = t.date_beg /\ trains[id].date_end = t.date_end
        /\ trains[id].depart_time = t.depart_time
        /\ trains[id].leave_time = LeaveTime(t)
        /\ trains[id].arrive_time = ArriveTime(t)
        /\ trains[id].price = Price(t)
    BY <1>1 DEF TrainInfo
  <1>4. /\ t.station_count \in Nat /\ t.station_count >= 2
        /\ t.date_beg \in Nat /\ t.date_end \in Nat
        /\ t.depart_time \in 0 .. 1439
    BY <1>2 DEF IsTrainInput
  <1>5. /\ \A i, j \in 0 .. t.station_count - 1 : t.stations[i] = t.stations[j] => i = j
        /\ \A i \in 1 .. t.station_count - 1 :
             /\ t.travel[i] \in Int /\ Stopover(t, i) \in Int /\ t.prices[i] \in Int
             /\ LeaveTime(t)[i] \in Nat /\ ArriveTime(t)[i] \in Nat
    BY DEF ProperTimetables
  <1>6. \A i \in 0 .. t.station_count - 1 : Price(t)[i] \in Int
    BY <1>4, <1>5, TotalsOfPrices
  <1>7. /\ LeaveTime(t)[0] = 0
        /\ \A i \in 0 .. t.station_count - 1 : LeaveTime(t)[i] \in Times
        /\ \A i \in 1 .. t.station_count - 1 : ArriveTime(t)[i] \in Times
    BY <1>4, <1>5, TotalsOfTimes
  <1>8. \A i \in 0 .. t.station_count - 1 : LeaveTime(t)[i] \in 0 .. Limit - 1
    BY <1>4, <1>5, <1>7, LimitHalves DEF Times
  <1>9. \A i \in 1 .. t.station_count - 1 : ArriveTime(t)[i] \in 0 .. Limit - 1
    BY <1>4, <1>5, <1>7, LimitHalves DEF Times
  <1> QED
    BY <1>3, <1>4, <1>5, <1>6, <1>7, <1>8, <1>9 DEF Regular, StationNos

-----------------------------------------------------------------------------
(* Stations by number, days by the day of departure.                       *)
LEMMA NumberOfStation ==
  ASSUME NEW id, Regular(id), NEW n \in StationNos(id)
  PROVE  /\ trains[id].stations[n] \in StationsOf(id)
         /\ GetStationNo(id, trains[id].stations[n]) = n
  <1> DEFINE s == trains[id].stations[n]
  <1>1. s \in StationsOf(id)
    BY DEF StationsOf, StationNos
  <1>2. IsStationNo(id, s, n)
    BY DEF IsStationNo, Regular, StationNos
  <1>3. \A m \in 0 .. trains[id].station_count - 1 : IsStationNo(id, s, m) => m = n
    BY DEF IsStationNo, Regular, StationNos
  <1>4. GetStationNo(id, s) =
          CHOOSE m \in 0 .. trains[id].station_count - 1 : IsStationNo(id, s, m)
    BY <1>1 DEF GetStationNo
  <1> QED
    BY <1>1, <1>2, <1>3, <1>4 DEF StationNos

LEMMA StationOfNumber ==
  ASSUME NEW id, Regular(id), NEW s \in StationsOf(id)
  PROVE  /\ GetStationNo(id, s) \in StationNos(id)
         /\ trains[id].stations[GetStationNo(id, s)] = s
  <1>1. PICK n \in StationNos(id) : trains[id].stations[n] = s
    BY DEF StationsOf, StationNos
  <1> QED
    BY <1>1, NumberOfStation

(* The day a train departs, and the day it leaves a station.               *)
LEMMA QuotientUnique ==
  ASSUME NEW q \in Int, NEW r \in 0 .. 1439
  PROVE  (q * 1440 + r) \div 1440 = q
  BY SMT

LEMMA QuotientAndRest ==
  ASSUME NEW x \in Int, NEW n \in Nat \ {0}
  PROVE  x = (x \div n) * n + (x % n)
  BY Z3

LEMMA QuotientExists ==
  ASSUME NEW x \in Int
  PROVE  /\ x \div 1440 \in Int /\ x % 1440 \in 0 .. 1439
         /\ x = (x \div 1440) * 1440 + (x % 1440)
  <1>1. x \div 1440 \in Int /\ x % 1440 \in 0 .. 1439
    BY SMT
  <1> QED
    BY <1>1, QuotientAndRest

LEMMA DaysShift ==
  ASSUME NEW day \in Int, NEW x \in Int
  PROVE  (day * 1440 + x) \div 1440 = day + x \div 1440
  <1>1. day * 1440 + x = (day + x \div 1440) * 1440 + (x % 1440)
    BY QuotientExists
  <1>2. day + x \div 1440 \in Int
    BY QuotientExists
  <1> QED
    BY <1>1, <1>2, QuotientExists, QuotientUnique

(* Minutes from the midnight before a train departs until it leaves.       *)
LeavesAfter(id, no) == trains[id].depart_time + trains[id].leave_time[no]

LEMMA LeavesAfterNat ==
  ASSUME NEW id, Regular(id), NEW no \in StationNos(id)
  PROVE  /\ LeavesAfter(id, no) \in Nat
         /\ LeavesAfter(id, no) \div 1440 \in Nat
         /\ no = 0 => LeavesAfter(id, no) \div 1440 = 0
         /\ \A day \in Int : LeavesAt(id, day, no) = day * 1440 + LeavesAfter(id, no)
  <1>1. PICK a, b : a = trains[id].depart_time /\ b = trains[id].leave_time[no]
    OBVIOUS
  <1>2. a \in 0 .. 1439 /\ b \in Nat /\ (no = 0 => b = 0)
    BY <1>1, LimitHalves DEF Regular
  <1>3. LeavesAfter(id, no) = a + b
    BY <1>1 DEF LeavesAfter
  <1>4. \A x \in Nat : x \div 1440 \in Nat
    BY SMT
  <1>5. \A x \in 0 .. 1439 : x \div 1440 = 0
    BY SMT
  <1>6. a + b \in Nat /\ (no = 0 => a + b \in 0 .. 1439)
    BY <1>2
  <1>7. \A day \in Int : LeavesAt(id, day, no) = day * 1440 + (a + b)
    BY <1>1, <1>2 DEF LeavesAt
  <1>8. a + b \in Nat /\ (a + b) \div 1440 \in Nat
        /\ (no = 0 => (a + b) \div 1440 = 0)
    BY <1>4, <1>5, <1>6
  <1> QED
    BY <1>3, <1>7, <1>8

LEMMA DepartDate ==
  ASSUME NEW id, Regular(id), NEW no \in StationNos(id), NEW date \in Int
  PROVE  GetDepartDate(id, date, no) = date - LeavesAfter(id, no) \div 1440
  BY LeavesAfterNat DEF GetDepartDate, DivC, LeavesAfter

(* Who leaves station no on a day has the train of the day GetDepartDate.  *)
LEMMA DepartsOnce ==
  ASSUME NEW id, Regular(id), NEW no \in StationNos(id),
         NEW date \in Int, NEW day \in Int
  PROVE  LeavesAt(id, day, no) \div 1440 = date <=> day = GetDepartDate(id, date, no)
  <1>1. LeavesAt(id, day, no) \div 1440 = day + LeavesAfter(id, no) \div 1440
    BY LeavesAfterNat, DaysShift
  <1>2. LeavesAfter(id, no) \div 1440 \in Nat
    BY LeavesAfterNat
  <1> QED
    BY <1>1, <1>2, DepartDate

LEMMA LeaveTimeShown ==
  ASSUME NEW id, Regular(id), NEW no \in StationNos(id), no # LastStation(id),
         NEW day \in Int
  PROVE  /\ GetLeaveTime(id, day, no) = LeavesAt(id, day, no)
         /\ LeavesAt(id, day, no) \in Int
         /\ day \in Nat => LeavesAt(id, day, no) \in Nat
  <1>1. PICK a, b : a = trains[id].depart_time /\ b = trains[id].leave_time[no]
    OBVIOUS
  <1>2. a \in 0 .. 1439 /\ b \in Nat /\ (no = 0 => b = 0)
    BY <1>1, LimitHalves DEF Regular
  <1>3. LeavesAt(id, day, no) = day * 1440 + a + b
    BY <1>1 DEF LeavesAt
  <1>4. GetLeaveTime(id, day, no) =
          IF no = 0 THEN day * 1440 + a ELSE day * 1440 + a + b
    BY <1>1 DEF GetLeaveTime, LastStation
  <1> QED
    BY <1>2, <1>3, <1>4

LEMMA ArriveTimeShown ==
  ASSUME NEW id, Regular(id), NEW no \in StationNos(id), no # 0, NEW day \in Int
  PROVE  /\ GetArriveTime(id, day, no) = ArrivesAt(id, day, no)
         /\ ArrivesAt(id, day, no) \in Int
         /\ day \in Nat => ArrivesAt(id, day, no) \in Nat
  <1>1. PICK a, b : a = trains[id].depart_time /\ b = trains[id].arrive_time[no]
    OBVIOUS
  <1>2. a \in 0 .. 1439 /\ b \in Nat
    BY <1>1, LimitHalves DEF Regular
  <1>3. /\ ArrivesAt(id, day, no) = day * 1440 + a + b
        /\ GetArriveTime(id, day, no) = day * 1440 + a + b
    BY <1>1 DEF ArrivesAt, GetArriveTime
  <1> QED
    BY <1>2, <1>3

-----------------------------------------------------------------------------
(* Dates and times as they are printed and read.                           *)
LEMMA DateRoundTrip ==
  ASSUME NEW date \in Int
  PROVE  LET shown == DateString(date)
         IN  /\ shown = <<shown[1], shown[2]>> /\ shown[1] \in 6 .. 9
             /\ ParseDate(shown) = date
  <1>1. CASE date < 30
    <2>1. DateString(date) = <<6, date + 1>>
      BY <1>1 DEF DateString, FirstDay
    <2> QED
      BY <2>1 DEF ParseDate, FirstDay
  <1>2. CASE date \in 30 .. 60
    <2>1. DateString(date) = <<7, date - 29>>
      BY <1>2 DEF DateString, FirstDay
    <2> QED
      BY <2>1 DEF ParseDate, FirstDay
  <1>3. CASE date \in 61 .. 91
    <2>1. DateString(date) = <<8, date - 60>>
      BY <1>3 DEF DateString, FirstDay
    <2> QED
      BY <2>1 DEF ParseDate, FirstDay
  <1>4. CASE date > 91
    <2>1. DateString(date) = <<9, date - 91>>
      BY <1>4 DEF DateString, FirstDay
    <2> QED
      BY <2>1 DEF ParseDate, FirstDay
  <1> QED
    BY <1>1, <1>2, <1>3, <1>4

LEMMA DateTyped ==
  ASSUME NEW d, IsDate(d)
  PROVE  /\ ParseDate(d) \in 0 .. 121 /\ DateString(ParseDate(d)) = d
  <1>1. PICK m \in 6 .. 9, k \in 1 .. 31 : d = <<m, k>> /\ (m \in {6, 9} => k <= 30)
    BY DEF IsDate
  <1>2. CASE m = 6
    <2>1. ParseDate(d) = k - 1
      BY <1>1, <1>2 DEF ParseDate, FirstDay
    <2> QED
      BY <1>1, <1>2, <2>1 DEF DateString, FirstDay
  <1>3. CASE m = 7
    <2>1. ParseDate(d) = k + 29
      BY <1>1, <1>3 DEF ParseDate, FirstDay
    <2> QED
      BY <1>1, <1>3, <2>1 DEF DateString, FirstDay
  <1>4. CASE m = 8
    <2>1. ParseDate(d) = k + 60
      BY <1>1, <1>4 DEF ParseDate, FirstDay
    <2> QED
      BY <1>1, <1>4, <2>1 DEF DateString, FirstDay
  <1>5. CASE m = 9
    <2>1. ParseDate(d) = k + 91
      BY <1>1, <1>5 DEF ParseDate, FirstDay
    <2> QED
      BY <1>1, <1>5, <2>1 DEF DateString, FirstDay
  <1> QED
    BY <1>1, <1>2, <1>3, <1>4, <1>5

LEMMA PrintedTime ==
  ASSUME NEW x \in Nat
  PROVE  /\ Minutes(DateTimeString(x)) = x
         /\ <<DateTimeString(x)[1], DateTimeString(x)[2]>> = DateString(x \div 1440)
  <1> DEFINE day == x \div 1440
             rest == x % 1440
             m == DateTimeString(x)
  <1>1. day \in Int /\ rest \in 0 .. 1439 /\ x = day * 1440 + rest
    BY QuotientExists
  <1>2. m = DateString(day) \o TimeString(rest)
    BY DEF DateTimeString
  <1> HIDE DEF day, rest, m
  <1>3. PICK a, b : DateString(day) = <<a, b>> /\ ParseDate(<<a, b>>) = day
    BY <1>1, DateRoundTrip
  <1>4. /\ TimeString(rest) = <<rest \div 60, rest % 60>>
        /\ rest = (rest \div 60) * 60 + (rest % 60)
    <2>1. rest = (rest \div 60) * 60 + (rest % 60)
      BY <1>1, QuotientAndRest
    <2> QED
      BY <2>1 DEF TimeString
  <1> DEFINE h == rest \div 60
             n == rest % 60
  <1>5. m[1] = a /\ m[2] = b /\ m[3] = h /\ m[4] = n
    <2> HIDE DEF h, n
    <2>1. m = <<a, b>> \o <<h, n>>
      BY <1>2, <1>3, <1>4 DEF h, n
    <2> QED
      BY <2>1
  <1> HIDE DEF h, n
  <1>6. ParseTime(<<m[3], m[4]>>) = rest
    BY <1>4, <1>5 DEF ParseTime, h, n, rest
  <1>7. ParseDate(<<m[1], m[2]>>) = day /\ <<m[1], m[2]>> = DateString(day)
    BY <1>3, <1>5
  <1>8. Minutes(m) = x
    BY <1>1, <1>6, <1>7 DEF Minutes
  <1> QED
    BY <1>7, <1>8 DEF m, day

-----------------------------------------------------------------------------
(* The rides, and the trains that go on a day.                             *)
Ride(id, day, from, to) == [id |-> id, day |-> day, from |-> from, to |-> to]

LEMMA RideParts ==
  ASSUME NEW s, NEW r \in Rides(s)
  PROVE  /\ r = Ride(r.id, r.day, r.from, r.to)
         /\ r.id \in released
         /\ r.day \in trains[r.id].date_beg .. trains[r.id].date_end
         /\ r.from \in 0 .. LastStation(r.id) /\ trains[r.id].stations[r.from] = s
         /\ r.to \in 1 .. LastStation(r.id)
  <1>1. PICK id \in released :
          r \in {[id |-> id, day |-> day, from |-> from, to |-> to] :
                   day \in trains[id].date_beg .. trains[id].date_end,
                   from \in {n \in 0 .. LastStation(id) : trains[id].stations[n] = s},
                   to \in 1 .. LastStation(id)}
    BY DEF Rides
  <1>2. PICK day \in trains[id].date_beg .. trains[id].date_end,
             from \in {n \in 0 .. LastStation(id) : trains[id].stations[n] = s},
             to \in 1 .. LastStation(id) :
               r = [id |-> id, day |-> day, from |-> from, to |-> to]
    BY <1>1
  <1> QED
    BY <1>2 DEF Ride

LEMMA RideExists ==
  ASSUME NEW s, NEW id \in released,
         NEW day \in trains[id].date_beg .. trains[id].date_end,
         NEW from \in 0 .. LastStation(id), trains[id].stations[from] = s,
         NEW to \in 1 .. LastStation(id)
  PROVE  Ride(id, day, from, to) \in Rides(s)
  <1>1. Ride(id, day, from, to) \in
          {[id |-> id, day |-> dy, from |-> fr, to |-> t] :
             dy \in trains[id].date_beg .. trains[id].date_end,
             fr \in {n \in 0 .. LastStation(id) : trains[id].stations[n] = s},
             t \in 1 .. LastStation(id)}
    BY DEF Ride
  <1> QED
    BY <1>1 DEF Rides

LEMMA StationsCount ==
  ASSUME NEW id, Regular(id)
  PROVE  /\ LastStation(id) \in Nat /\ LastStation(id) >= 1
         /\ StationNos(id) = 0 .. LastStation(id)
         /\ trains[id].date_beg \in Nat /\ trains[id].date_end \in Nat
  BY DEF Regular, StationNos, LastStation

(* The ride of a train that goes.                                          *)
RideOf(id, s, e, date) ==
  Ride(id, GetDepartDate(id, date, GetStationNo(id, s)),
       GetStationNo(id, s), GetStationNo(id, e))

LEMMA GoingIsRide ==
  ASSUME NEW id \in released, Regular(id), NEW s \in StationsOf(id),
         NEW e \in StationsOf(id), NEW d, IsDate(d), Goes(id, s, e, ParseDate(d))
  PROVE  /\ RideOf(id, s, e, ParseDate(d)) \in RidesOn(s, d)
         /\ Ends(RideOf(id, s, e, ParseDate(d))) = e
  <1> DEFINE date == ParseDate(d)
             from == GetStationNo(id, s)
             to == GetStationNo(id, e)
             day == GetDepartDate(id, date, from)
             r == RideOf(id, s, e, date)
  <1>1. date \in Int
    BY DateTyped
  <1>2. /\ from \in StationNos(id) /\ trains[id].stations[from] = s
        /\ to \in StationNos(id) /\ trains[id].stations[to] = e
    BY StationOfNumber
  <1>3. /\ from # LastStation(id) /\ from < to
        /\ day \in trains[id].date_beg .. trains[id].date_end
    BY DEF Goes, IsOnSale
  <1>4. day \in Int
    BY <1>3 DEF Regular
  <1>5. from \in 0 .. LastStation(id) /\ to \in 1 .. LastStation(id)
    BY <1>2, <1>3 DEF StationNos, LastStation, Regular
  <1>6. LeavesAt(id, day, from) \div 1440 = date
    BY <1>1, <1>2, <1>4, DepartsOnce
  <1>7. r = Ride(id, day, from, to)
    BY DEF RideOf
  <1> HIDE DEF date, from, to, day
  <1>8. Ride(id, day, from, to) \in Rides(s)
    BY <1>2, <1>3, <1>5, RideExists
  <1> QED
    BY <1>2, <1>3, <1>6, <1>7, <1>8 DEF RidesOn, Ends, Ride, date

LEMMA RideIsGoing ==
  ASSUME \A id \in released : Regular(id),
         NEW s, NEW d, IsDate(d), NEW r \in RidesOn(s, d)
  PROVE  /\ r.id \in released /\ s \in StationsOf(r.id) /\ Ends(r) \in StationsOf(r.id)
         /\ Goes(r.id, s, Ends(r), ParseDate(d))
         /\ r = RideOf(r.id, s, Ends(r), ParseDate(d))
  <1> DEFINE date == ParseDate(d)
             id == r.id
  <1>1. date \in Int
    BY DateTyped
  <1>2. /\ r \in Rides(s) /\ r.from < r.to
        /\ LeavesAt(r.id, r.day, r.from) \div 1440 = date
    BY DEF RidesOn
  <1>3. /\ r = Ride(id, r.day, r.from, r.to) /\ id \in released
        /\ r.day \in trains[id].date_beg .. trains[id].date_end
        /\ r.from \in 0 .. LastStation(id) /\ trains[id].stations[r.from] = s
        /\ r.to \in 1 .. LastStation(id)
    BY <1>2, RideParts
  <1>4. Regular(id)
    BY <1>3
  <1>5. r.day \in Int /\ r.from \in StationNos(id) /\ r.to \in StationNos(id)
        /\ r.from # LastStation(id)
    BY <1>2, <1>3, <1>4, StationsCount
  <1> HIDE DEF date, id
  <1>6. /\ s \in StationsOf(id) /\ GetStationNo(id, s) = r.from
        /\ Ends(r) \in StationsOf(id) /\ GetStationNo(id, Ends(r)) = r.to
    BY <1>3, <1>4, <1>5, NumberOfStation DEF Ends, id
  <1>7. r.day = GetDepartDate(id, date, r.from)
    BY <1>1, <1>2, <1>4, <1>5, DepartsOnce DEF id
  <1> QED
    BY <1>2, <1>3, <1>5, <1>6, <1>7 DEF Goes, IsOnSale, RideOf, date, id

(* What is printed for a ride.                                             *)
LEMMA LineOfRide ==
  ASSUME \A id \in released : Regular(id),
         NEW s, NEW r \in Rides(s), r.from < r.to,
         NEW date \in Int, LeavesAt(r.id, r.day, r.from) \div 1440 = date
  PROVE  LET line == PrintTicket(r.id, s, Ends(r), date)
         IN  /\ Shows(line, r)
             /\ <<line.leaves[1], line.leaves[2]>> = DateString(date)
             /\ line.leaves = DateTimeString(GetLeaveTime(r.id, r.day, r.from))
             /\ line.arrives = DateTimeString(GetArriveTime(r.id, r.day, r.to))
             /\ line.seats = SeatsLeft(r.id, r.day, r.from, r.to)
  <1> DEFINE id == r.id
             line == PrintTicket(id, s, Ends(r), date)
  <1>1. /\ id \in released
        /\ r.day \in trains[id].date_beg .. trains[id].date_end
        /\ r.from \in 0 .. LastStation(id) /\ trains[id].stations[r.from] = s
        /\ r.to \in 1 .. LastStation(id)
    BY RideParts
  <1>2. Regular(id)
    BY <1>1
  <1>3. r.day \in Nat /\ r.from \in StationNos(id) /\ r.to \in StationNos(id)
        /\ r.from # LastStation(id) /\ r.to # 0
    BY <1>1, <1>2, StationsCount
  <1> HIDE DEF id
  <1>4. GetStationNo(id, s) = r.from /\ GetStationNo(id, Ends(r)) = r.to
    BY <1>1, <1>2, <1>3, NumberOfStation DEF Ends, id
  <1>5. GetDepartDate(id, date, r.from) = r.day
    BY <1>2, <1>3, DepartsOnce DEF id
  <1>6. line = [train |-> trains[id].train_name, from |-> s, to |-> Ends(r),
                leaves |-> DateTimeString(GetLeaveTime(id, r.day, r.from)),
                arrives |-> DateTimeString(GetArriveTime(id, r.day, r.to)),
                price |-> GetPrice(id, r.from, r.to),
                seats |-> SeatsLeft(id, r.day, r.from, r.to)]
    BY <1>4, <1>5 DEF PrintTicket
  <1>7. GetLeaveTime(id, r.day, r.from) = Departure(r) /\ Departure(r) \in Nat
    BY <1>2, <1>3, LeaveTimeShown DEF Departure, id
  <1>8. GetArriveTime(id, r.day, r.to) = Arrival(r) /\ Arrival(r) \in Nat
    BY <1>2, <1>3, ArriveTimeShown DEF Arrival, id
  <1>9. /\ Minutes(DateTimeString(Departure(r))) = Departure(r)
        /\ Minutes(DateTimeString(Arrival(r))) = Arrival(r)
        /\ <<DateTimeString(Departure(r))[1], DateTimeString(Departure(r))[2]>>
             = DateString(Departure(r) \div 1440)
    BY <1>7, <1>8, PrintedTime
  <1>10. Departure(r) \div 1440 = date
    BY DEF Departure
  <1>11. GetPrice(id, r.from, r.to) = Cost(r)
    BY DEF GetPrice, Cost, id
  <1>12. SeatsLeft(id, r.day, r.from, r.to) = FreeSeats(r)
    BY <1>1 DEF SeatsLeft, FreeSeats, id
  <1>13. Shows(line, r)
    BY <1>1, <1>6, <1>7, <1>8, <1>9, <1>11, <1>12 DEF Shows, id
  <1> QED
    BY <1>6, <1>7, <1>9, <1>10, <1>13 DEF id

-----------------------------------------------------------------------------
(* The records of a station, in the order of their addresses.              *)
Rises(met) == \A i, j \in DOMAIN met : i < j => met[i] < met[j]

LEMMA ListExists ==
  ASSUME NEW S \in SUBSET Nat, IsFiniteSet(S)
  PROVE  \E met \in [1 .. Cardinality(S) -> S] : Rises(met)
  <1> DEFINE Good(n) == \A T \in SUBSET Nat : IsFiniteSet(T) /\ Cardinality(T) = n =>
                          \E met \in [1 .. n -> T] : Rises(met)
             G == {n \in Nat : Good(n)}
  <1>1. 0 \in G
    <2> SUFFICES ASSUME NEW T \in SUBSET Nat
                 PROVE  \E met \in [1 .. 0 -> T] : Rises(met)
      OBVIOUS
    <2>1. [i \in 1 .. 0 |-> 0] \in [1 .. 0 -> T] /\ Rises([i \in 1 .. 0 |-> 0])
      BY DEF Rises
    <2> QED
      BY <2>1
  <1>2. ASSUME NEW n \in Nat, n \in G
        PROVE  n + 1 \in G
    <2> SUFFICES ASSUME NEW T \in SUBSET Nat, IsFiniteSet(T), Cardinality(T) = n + 1
                 PROVE  \E met \in [1 .. n + 1 -> T] : Rises(met)
      OBVIOUS
    <2>1. T # {}
      BY FS_EmptySet
    <2>2. PICK x \in T : \A y \in T : x <= y
      BY <2>1, LeastNat
    <2> DEFINE R == T \ {x}
    <2>3. IsFiniteSet(R) /\ Cardinality(R) = n /\ R \in SUBSET Nat
      BY FS_RemoveElement
    <2>4. PICK m \in [1 .. n -> R] : Rises(m)
      BY <1>2, <2>3
    <2> DEFINE met == [i \in 1 .. n + 1 |-> IF i = 1 THEN x ELSE m[i - 1]]
    <2>5. \A i \in 1 .. n + 1 : i # 1 => i - 1 \in 1 .. n
      OBVIOUS
    <2>6. \A i \in 1 .. n : m[i] \in T /\ m[i] > x
      <3>1. \A y \in R : y \in T /\ y > x
        BY <2>2
      <3> QED
        BY <3>1
    <2>7. met \in [1 .. n + 1 -> T]
      BY <2>5, <2>6
    <2>8. ASSUME NEW i \in 1 .. n + 1, NEW j \in 1 .. n + 1, i < j
          PROVE  met[i] < met[j]
      <3>1. j # 1 /\ met[j] = m[j - 1] /\ j - 1 \in 1 .. n
        BY <2>8
      <3>2. CASE i = 1
        BY <3>1, <3>2, <2>6
      <3>3. CASE i # 1
        <4>1. met[i] = m[i - 1] /\ i - 1 \in 1 .. n /\ i - 1 < j - 1
          BY <2>8, <3>3
        <4> QED
          BY <3>1, <4>1, <2>4 DEF Rises
      <3> QED
        BY <3>2, <3>3
    <2>9. Rises(met)
      <3> HIDE DEF met
      <3> QED
        BY <2>7, <2>8 DEF Rises
    <2> QED
      BY <2>7, <2>9
  <1>3. Nat \subseteq G
    <2> HIDE DEF G
    <2> QED
      BY <1>1, <1>2, FromZeroOn
  <1>4. Cardinality(S) \in Nat
    BY FS_CardinalityType
  <1> QED
    BY <1>3, <1>4

LEMMA ListIsAll ==
  ASSUME NEW S \in SUBSET Nat, IsFiniteSet(S),
         NEW met \in [1 .. Cardinality(S) -> S], Rises(met)
  PROVE  \A x \in S : \E i \in DOMAIN met : met[i] = x
  <1> DEFINE n == Cardinality(S)
  <1>1. n \in Nat
    BY FS_CardinalityType
  <1>2. IsFiniteSet(1 .. n) /\ Cardinality(1 .. n) = n
    BY <1>1, FS_Interval
  <1>3. \A i, j \in 1 .. n : met[i] = met[j] => i = j
    <2>1. \A i \in 1 .. n : met[i] \in Nat
      OBVIOUS
    <2> HIDE DEF n
    <2> QED
      BY <1>1, <2>1 DEF Rises, n
  <1>4. met \in Injection(1 .. n, S)
    BY <1>3 DEF Injection, IsInjective
  <1>5. met \in Surjection(1 .. n, S)
    BY <1>2, <1>4, FS_Injection
  <1> QED
    BY <1>5 DEF Surjection

IdsAt(s) == {id \in DOMAIN trains : <<s, id>> \in station_train_index}

LEMMA TrainsAtStation ==
  ASSUME DOMAIN trains \subseteq Nat, IsFiniteSet(DOMAIN trains), NEW s
  PROVE  /\ TrainsAt(s) \in Seq(IdsAt(s)) /\ Rises(TrainsAt(s))
         /\ \A id \in IdsAt(s) : \E i \in DOMAIN TrainsAt(s) : TrainsAt(s)[i] = id
  <1> DEFINE S == IdsAt(s)
             n == Cardinality(S)
  <1>1. S \in SUBSET Nat /\ IsFiniteSet(S)
    <2>1. S \in SUBSET DOMAIN trains
      BY DEF IdsAt
    <2> QED
      BY <2>1, FS_Subset
  <1>2. \E met \in [1 .. n -> S] : Rises(met)
    BY <1>1, ListExists
  <1>3. TrainsAt(s) = CHOOSE met \in [1 .. n -> S] : Rises(met)
    BY DEF TrainsAt, IdsAt, Rises
  <1>4. TrainsAt(s) \in [1 .. n -> S] /\ Rises(TrainsAt(s))
    <2> HIDE DEF n, S
    <2> QED
      BY <1>2, <1>3
  <1>5. n \in Nat
    BY <1>1, FS_CardinalityType
  <1>6. TrainsAt(s) \in Seq(S)
    <2> HIDE DEF n, S
    <2> QED
      BY <1>4, <1>5, IsASeq
  <1> QED
    BY <1>1, <1>4, <1>6, ListIsAll
LEMMA LeastOf ==
  ASSUME NEW S \in SUBSET Nat, S # {}
  PROVE  Sets!Min(S) \in S /\ \A y \in S : Sets!Min(S) <= y
  <1>1. \E x \in S : \A y \in S : x <= y
    BY LeastNat
  <1>2. Sets!Min(S) = CHOOSE x \in S : \A y \in S : x <= y
    BY DEF Sets!Min
  <1> QED
    BY <1>1, <1>2

-----------------------------------------------------------------------------
(* The join of two station lists.                                          *)
JoinStates(there) == [at : 1 .. Len(there) + 1, found : Seq(Nat)]

(* JoinStep for the trains G that go.                                      *)
JoinTo(there, join, id, G) == JoinStep(there, join, id, id \in G)

LEMMA JoinMoves ==
  ASSUME NEW there \in Seq(Nat), NEW join \in JoinStates(there), NEW id \in Nat,
         NEW G
  PROVE  LET next == JoinTo(there, join, id, G)
         IN  /\ next \in JoinStates(there)
             /\ next.at >= join.at
             /\ \A j \in join.at .. next.at - 1 : there[j] < id
             /\ next.at <= Len(there) => there[next.at] >= id
             /\ next.found = IF next.at <= Len(there) /\ there[next.at] = id /\ id \in G
                             THEN Append(join.found, id) ELSE join.found
  <1> DEFINE n == Len(there)
             K == {k \in join.at .. n + 1 : k <= n => there[k] >= id}
             next == JoinTo(there, join, id, G)
  <1>1. n \in Nat /\ join.at \in 1 .. n + 1 /\ join.found \in Seq(Nat)
    BY DEF JoinStates
  <1>2. K \in SUBSET Nat /\ n + 1 \in K
    BY <1>1
  <1>3. Sets!Min(K) \in K /\ \A y \in K : Sets!Min(K) <= y
    <2> HIDE DEF K
    <2> QED
      BY <1>2, LeastOf
  <1>4. next.at = Sets!Min(K)
        /\ next = [at |-> next.at,
                   found |-> IF next.at <= Len(there) /\ there[next.at] = id /\ id \in G
                             THEN Append(join.found, id) ELSE join.found]
    BY DEF JoinTo, JoinStep
  <1> HIDE DEF next
  <1>5. /\ next.at \in join.at .. n + 1 /\ (next.at <= n => there[next.at] >= id)
        /\ \A j \in join.at .. n + 1 : (j <= n => there[j] >= id) => next.at <= j
    <2> DEFINE at == next.at
    <2>1. at = Sets!Min(K)
      BY <1>4
    <2> HIDE DEF at
    <2>2. at \in K /\ \A y \in K : at <= y
      <3> HIDE DEF K
      <3> QED
        BY <2>1, <1>3
    <2> QED
      BY <2>2 DEF at
  <1>6. ASSUME NEW j \in join.at .. next.at - 1
        PROVE  there[j] < id
    <2>1. j \in 1 .. n /\ j < next.at /\ j \in join.at .. n + 1
      BY <1>1, <1>5
    <2>2. there[j] \in Nat
      BY <2>1
    <2> QED
      BY <1>1, <1>5, <2>1, <2>2
  <1>7. next.found = IF next.at <= Len(there) /\ there[next.at] = id /\ id \in G
                     THEN Append(join.found, id) ELSE join.found
    BY <1>4
  <1>8. next.found \in Seq(Nat)
    BY <1>1, <1>7
  <1>9. next.at \in 1 .. n + 1 /\ next.at >= join.at
    BY <1>1, <1>5
  <1>10. next \in JoinStates(there)
    BY <1>4, <1>7, <1>8, <1>9 DEF JoinStates
  <1> QED
    BY <1>5, <1>6, <1>7, <1>9, <1>10 DEF next

(* What is found after k trains of the first list.                         *)
Joined(at, found, here, there, G, k) ==
  /\ Rises(found)
  /\ \A i \in DOMAIN found :
       \E m \in 1 .. k : /\ found[i] = here[m] /\ here[m] \in G
                         /\ \E j \in DOMAIN there : there[j] = here[m]
  /\ \A m \in 1 .. k :
       here[m] \in G /\ (\E j \in DOMAIN there : there[j] = here[m]) =>
         \E i \in DOMAIN found : found[i] = here[m]
  /\ \A j \in 1 .. at - 1 : k >= 1 /\ there[j] < here[k]

LEMMA RisesOn ==
  ASSUME NEW old \in Seq(Nat), NEW l, l = Len(old), Rises(old), NEW id \in Nat,
         \A i \in 1 .. l : old[i] < id
  PROVE  Rises(Append(old, id))
  <1> DEFINE new == Append(old, id)
  <1>1. l \in Nat /\ DOMAIN old = 1 .. l
    OBVIOUS
  <1>2. DOMAIN new = 1 .. l + 1 /\ (\A i \in 1 .. l : new[i] = old[i]) /\ new[l + 1] = id
    OBVIOUS
  <1> HIDE DEF new
  <1>3. ASSUME NEW i \in 1 .. l + 1, NEW j \in 1 .. l + 1, i < j
        PROVE  new[i] < new[j]
    <2>1. i \in 1 .. l /\ new[i] = old[i]
      BY <1>1, <1>2, <1>3
    <2>2. CASE j = l + 1
      BY <1>2, <2>1, <2>2
    <2>3. CASE j # l + 1
      <3>1. j \in 1 .. l /\ new[j] = old[j]
        BY <1>1, <1>2, <2>3
      <3> QED
        BY <1>1, <1>3, <2>1, <3>1 DEF Rises
    <2> QED
      BY <2>2, <2>3
  <1>4. Rises(new)
    BY <1>2, <1>3 DEF Rises
  <1> QED
    BY <1>4 DEF new

LEMMA JoinGrows ==
  ASSUME NEW here, NEW there, NEW n \in Nat, DOMAIN there = 1 .. n,
         \A j \in 1 .. n : there[j] \in Nat, Rises(there),
         NEW G, NEW k \in Nat, NEW prev \in Nat, k = prev + 1,
         NEW id \in Nat, id = here[k], \A m \in 1 .. prev : here[m] \in Nat /\ here[m] < id,
         NEW at \in 1 .. n + 1, NEW at0 \in 1 .. n + 1, at0 <= at,
         NEW old \in Seq(Nat), NEW new \in Seq(Nat),
         Joined(at0, old, here, there, G, prev),
         \A j \in at0 .. at - 1 : there[j] < id,
         at <= n => there[at] >= id,
         at <= n /\ there[at] = id /\ id \in G => new = Append(old, id),
         ~(at <= n /\ there[at] = id /\ id \in G) => new = old
  PROVE  Joined(at, new, here, there, G, k)
  <1> DEFINE meets == \E j \in DOMAIN there : there[j] = id
  <1>1. ASSUME NEW j \in 1 .. at - 1
        PROVE  there[j] < id
    <2>1. CASE j >= at0
      BY <2>1
    <2>2. CASE j < at0
      <3>1. prev >= 1 /\ there[j] < here[prev]
        BY <2>2 DEF Joined
      <3>2. here[prev] < id /\ here[prev] \in Nat /\ there[j] \in Nat
        BY <3>1
      <3> QED
        BY <3>1, <3>2
    <2> QED
      BY <2>1, <2>2
  <1>2. meets <=> at <= n /\ there[at] = id
    <2>0. at <= n /\ there[at] = id => meets
      <3>1. at <= n => at \in 1 .. n
        OBVIOUS
      <3> QED
        BY <3>1
    <2> SUFFICES ASSUME NEW j \in 1 .. n, there[j] = id
                 PROVE  at <= n /\ there[at] = id
      BY <2>0
    <2>1. ~(j < at)
      BY <1>1
    <2>2. at \in 1 .. n
      BY <2>1
    <2>3. ~(at < j)
      <3> SUFFICES ASSUME at < j PROVE FALSE
        OBVIOUS
      <3>1. there[at] < there[j]
        BY <2>2 DEF Rises
      <3>2. there[at] >= id /\ there[at] \in Nat
        BY <2>2
      <3> QED
        BY <3>1, <3>2
    <2> QED
      BY <2>1, <2>2, <2>3
  <1>3. /\ Rises(old)
        /\ \A i \in DOMAIN old :
             \E m \in 1 .. prev : /\ old[i] = here[m] /\ here[m] \in G
                                  /\ \E j \in DOMAIN there : there[j] = here[m]
        /\ \A m \in 1 .. prev :
             here[m] \in G /\ (\E j \in DOMAIN there : there[j] = here[m]) =>
               \E i \in DOMAIN old : old[i] = here[m]
    BY DEF Joined
  <1>4. \A m \in 1 .. k : m = k \/ m \in 1 .. prev
    OBVIOUS
  <1>5. 1 .. prev \subseteq 1 .. k /\ k \in 1 .. k
    OBVIOUS
  <1>6. CASE meets /\ id \in G
    <2> DEFINE l == Len(old)
    <2>1. new = Append(old, id)
      BY <1>2, <1>6
    <2>2. /\ l \in Nat /\ DOMAIN old = 1 .. l /\ DOMAIN new = 1 .. l + 1
          /\ (\A i \in 1 .. l : new[i] = old[i]) /\ new[l + 1] = id
      BY <2>1
    <2>3. \A i \in 1 .. l : old[i] < id
      BY <1>3, <2>2
    <2>4. Rises(new)
      BY <2>1, <2>3, <1>3, RisesOn
    <2> HIDE DEF l
    <2>5. \A i \in 1 .. l + 1 : i \in 1 .. l \/ i = l + 1
      BY <2>2
    <2>6. 1 .. l \subseteq 1 .. l + 1 /\ l + 1 \in 1 .. l + 1
      BY <2>2
    <2>7. ASSUME NEW i \in 1 .. l + 1
          PROVE \E m \in 1 .. k : /\ new[i] = here[m] /\ here[m] \in G
                                  /\ \E j \in DOMAIN there : there[j] = here[m]
      <3>1. CASE i = l + 1
        BY <3>1, <1>5, <1>6, <2>2
      <3>2. CASE i \in 1 .. l
        <4>1. PICK m \in 1 .. prev : /\ old[i] = here[m] /\ here[m] \in G
                                     /\ \E j \in DOMAIN there : there[j] = here[m]
          BY <3>2, <1>3, <2>2
        <4>2. m \in 1 .. k /\ new[i] = here[m]
          BY <4>1, <3>2, <1>5, <2>2
        <4> QED
          BY <4>1, <4>2
      <3> QED
        BY <3>1, <3>2, <2>5
    <2>8. ASSUME NEW m \in 1 .. k, here[m] \in G,
                 \E j \in DOMAIN there : there[j] = here[m]
          PROVE  \E i \in 1 .. l + 1 : new[i] = here[m]
      <3>1. CASE m = k
        BY <3>1, <2>2, <2>6
      <3>2. CASE m \in 1 .. prev
        <4>1. PICK i \in DOMAIN old : old[i] = here[m]
          BY <3>2, <1>3, <2>8
        <4>2. i \in 1 .. l
          BY <4>1, <2>2
        <4>3. i \in 1 .. l + 1 /\ new[i] = here[m]
          BY <4>1, <4>2, <2>2, <2>6
        <4> QED
          BY <4>3
      <3> QED
        BY <3>1, <3>2, <1>4
    <2>9. \A j \in 1 .. at - 1 : k >= 1 /\ there[j] < here[k]
      BY <1>1
    <2> QED
      BY <2>2, <2>4, <2>7, <2>8, <2>9 DEF Joined
  <1>7. CASE ~(meets /\ id \in G)
    <2>1. new = old
      BY <1>2, <1>7
    <2>2. \A i \in DOMAIN new :
            \E m \in 1 .. k : /\ new[i] = here[m] /\ here[m] \in G
                              /\ \E j \in DOMAIN there : there[j] = here[m]
      BY <1>3, <1>5, <2>1
    <2>3. ASSUME NEW m \in 1 .. k, here[m] \in G,
                 \E j \in DOMAIN there : there[j] = here[m]
          PROVE  \E i \in DOMAIN new : new[i] = here[m]
      <3>1. m # k
        BY <1>7, <2>3
      <3>2. m \in 1 .. prev
        BY <1>4, <3>1
      <3> QED
        BY <3>2, <1>3, <2>1, <2>3
    <2>4. \A j \in 1 .. at - 1 : k >= 1 /\ there[j] < here[k]
      BY <1>1
    <2>5. Rises(new)
      BY <1>3, <2>1
    <2> QED
      BY <2>2, <2>3, <2>4, <2>5 DEF Joined
  <1> QED
    BY <1>6, <1>7

LEMMA JoinTurn ==
  ASSUME NEW here \in Seq(Nat), NEW there \in Seq(Nat), Rises(here), Rises(there),
         NEW G, NEW k \in 1 .. Len(here), NEW join \in JoinStates(there),
         Joined(join.at, join.found, here, there, G, k - 1)
  PROVE  Joined(JoinTo(there, join, here[k], G).at, JoinTo(there, join, here[k], G).found,
                here, there, G, k)
  <1> DEFINE next == JoinTo(there, join, here[k], G)
  <1>1. PICK n, id, at, at0, old, new, prev :
          /\ n = Len(there) /\ id = here[k] /\ prev = k - 1
          /\ at0 = join.at /\ at = next.at /\ old = join.found /\ new = next.found
    OBVIOUS
  <1>2. /\ n \in Nat /\ id \in Nat /\ k \in Nat /\ k >= 1 /\ prev \in Nat /\ k = prev + 1
        /\ DOMAIN there = 1 .. n /\ \A j \in 1 .. n : there[j] \in Nat
    BY <1>1
  <1>3. /\ next \in JoinStates(there)
        /\ next.at >= join.at
        /\ \A j \in join.at .. next.at - 1 : there[j] < here[k]
        /\ next.at <= Len(there) => there[next.at] >= here[k]
        /\ next.found = IF next.at <= Len(there) /\ there[next.at] = here[k] /\ here[k] \in G
                        THEN Append(join.found, here[k]) ELSE join.found
    <2>1. here[k] \in Nat
      OBVIOUS
    <2> QED
      BY <2>1, JoinMoves
  <1> HIDE DEF next
  <1>4. /\ at \in 1 .. n + 1 /\ at0 \in 1 .. n + 1 /\ at0 <= at
        /\ new \in Seq(Nat) /\ old \in Seq(Nat)
    BY <1>1, <1>3 DEF JoinStates
  <1>5. /\ \A j \in at0 .. at - 1 : there[j] < id
        /\ at <= n => there[at] >= id
        /\ at <= n /\ there[at] = id /\ id \in G => new = Append(old, id)
        /\ ~(at <= n /\ there[at] = id /\ id \in G) => new = old
    BY <1>1, <1>3
  <1>6. Joined(at0, old, here, there, G, prev)
    BY <1>1
  <1>7. \A m \in 1 .. prev : here[m] \in Nat /\ here[m] < id
    <2>1. \A m \in 1 .. prev : m \in 1 .. Len(here) /\ m < k
      BY <1>2
    <2> QED
      BY <1>1, <2>1 DEF Rises
  <1>8. id = here[k] /\ DOMAIN there = 1 .. n
    BY <1>1, <1>2
  <1>9. Joined(at, new, here, there, G, k)
    BY <1>2, <1>4, <1>5, <1>6, <1>7, <1>8, JoinGrows
  <1> QED
    BY <1>1, <1>9 DEF next
LEMMA JoinIsExact ==
  ASSUME DOMAIN trains \subseteq Nat, IsFiniteSet(DOMAIN trains),
         NEW s, NEW e, NEW date
  PROVE  /\ Join(s, e, date) \in Seq(Nat) /\ Rises(Join(s, e, date))
         /\ \A i \in DOMAIN Join(s, e, date) :
              LET id == Join(s, e, date)[i]
              IN  id \in IdsAt(s) /\ id \in IdsAt(e) /\ Goes(id, s, e, date)
         /\ \A id \in IdsAt(s) \cap IdsAt(e) : Goes(id, s, e, date) =>
              \E i \in DOMAIN Join(s, e, date) : Join(s, e, date)[i] = id
  <1> DEFINE G == {id \in Nat : Goes(id, s, e, date)}
  <1>1. PICK here, there, n : here = TrainsAt(s) /\ there = TrainsAt(e) /\ n = Len(here)
    OBVIOUS
  <1>2. IdsAt(s) \subseteq Nat /\ IdsAt(e) \subseteq Nat
    BY DEF IdsAt
  <1>3. /\ here \in Seq(IdsAt(s)) /\ there \in Seq(IdsAt(e))
        /\ Rises(here) /\ Rises(there)
        /\ \A id \in IdsAt(s) : \E i \in DOMAIN here : here[i] = id
        /\ \A id \in IdsAt(e) : \E i \in DOMAIN there : there[i] = id
    BY <1>1, TrainsAtStation
  <1>4. here \in Seq(Nat) /\ there \in Seq(Nat) /\ n \in Nat /\ DOMAIN here = 1 .. n
    BY <1>1, <1>2, <1>3
  <1> DEFINE E == JoinStates(there)
             base == [at |-> 1, found |-> << >>]
             step == [x \in E \X (1 .. n) |-> JoinTo(there, x[1], here[x[2]], G)]
             Body(f) == [k \in 0 .. Len(here) |->
                           IF k = 0 THEN base
                           ELSE JoinStep(there, f[k - 1], here[k], Goes(here[k], s, e, date))]
  <1>5. \A k \in 1 .. n : here[k] \in Nat
    BY <1>4
  <1>6. base \in E
    BY <1>4 DEF JoinStates
  <1>7. step \in [E \X (1 .. n) -> E]
    <2>1. ASSUME NEW x \in E, NEW k \in 1 .. n
          PROVE  JoinTo(there, x, here[k], G) \in E
      <3> HIDE DEF G
      <3> QED
        BY <1>4, <1>5, JoinMoves
    <2> QED
      BY <2>1
  <1> HIDE DEF G, E, base, step
  <1>8. PICK f \in [0 .. n -> E] : Turns(f, base, step, n)
    BY <1>4, <1>6, <1>7, LoopExists
  <1>9. ASSUME NEW k \in 1 .. n
        PROVE  f[k] = JoinTo(there, f[k - 1], here[k], G) /\ f[k - 1] \in E
    <2>1. k - 1 \in 0 .. n
      BY <1>4
    <2>2. f[k - 1] \in E
      BY <2>1
    <2>3. f[k] = step[<<f[k - 1], k>>]
      BY <1>8 DEF Turns
    <2> QED
      BY <2>2, <2>3 DEF step
  <1>10. ASSUME NEW x, NEW k \in 1 .. n
         PROVE  JoinTo(there, x, here[k], G)
                  = JoinStep(there, x, here[k], Goes(here[k], s, e, date))
    <2>1. here[k] \in G <=> Goes(here[k], s, e, date)
      BY <1>5 DEF G
    <2> QED
      BY <2>1 DEF JoinTo, JoinStep
  <1>11. f = Body(f)
    <2>1. f[0] = base
      BY <1>8 DEF Turns
    <2>2. \A k \in 0 .. n : f[k] = Body(f)[k]
      <3> SUFFICES ASSUME NEW k \in 0 .. n PROVE f[k] = Body(f)[k]
        OBVIOUS
      <3>1. CASE k = 0
        BY <2>1, <3>1, <1>1
      <3>2. CASE k # 0
        <4>1. k \in 1 .. n
          BY <3>2, <1>4
        <4>2. f[k] = JoinStep(there, f[k - 1], here[k], Goes(here[k], s, e, date))
          BY <4>1, <1>9, <1>10
        <4> QED
          BY <3>2, <4>2, <1>1
      <3> QED
        BY <3>1, <3>2
    <2>3. DOMAIN Body(f) = 0 .. n
      BY <1>1
    <2> HIDE DEF Body
    <2>4. Body(f) = [k \in 0 .. n |-> Body(f)[k]]
      BY <1>1 DEF Body
    <2> QED
      BY <2>2, <2>4
  <1>12. Join(s, e, date) = (CHOOSE g : g = Body(g))[n].found
    BY <1>1 DEF Join, base
  <1> DEFINE g == CHOOSE h : h = Body(h)
  <1>13. g = Body(g)
    <2> HIDE DEF Body
    <2> QED
      BY <1>11
  <1> HIDE DEF g
  <1> DEFINE Good(k) == g[k] \in E /\ Joined(g[k].at, g[k].found, here, there, G, k)
             S == {k \in 0 .. n : Good(k)}
  <1>14. g[0] = base
    BY <1>13, <1>1, <1>4
  <1>15. 0 \in S
    <2>1. Joined(1, << >>, here, there, G, 0)
      BY DEF Joined, Rises
    <2>2. g[0].at = 1 /\ g[0].found = << >>
      BY <1>14 DEF base
    <2> QED
      BY <1>4, <1>6, <1>14, <2>1, <2>2
  <1>16. ASSUME NEW k \in 1 .. n, k - 1 \in S
         PROVE  k \in S
    <2>1. g[k - 1] \in E /\ Joined(g[k - 1].at, g[k - 1].found, here, there, G, k - 1)
      BY <1>16
    <2>2. g[k] = JoinTo(there, g[k - 1], here[k], G)
      <3>1. g[k] = JoinStep(there, g[k - 1], here[k], Goes(here[k], s, e, date))
        <4>1. k # 0 /\ k \in 0 .. Len(here)
          BY <1>1, <1>4
        <4> QED
          BY <4>1, <1>13, Zenon
      <3> QED
        BY <3>1, <1>10
    <2>3. g[k] \in E
      <3>1. g[k - 1] \in JoinStates(there)
        BY <2>1 DEF E
      <3>2. JoinTo(there, g[k - 1], here[k], G) \in JoinStates(there)
        BY <3>1, <1>4, <1>5, JoinMoves
      <3> QED
        BY <3>2, <2>2 DEF E
    <2>4. Joined(g[k].at, g[k].found, here, there, G, k)
      <3>1. g[k - 1] \in JoinStates(there)
        BY <2>1 DEF E
      <3>2. k \in 1 .. Len(here)
        BY <1>1
      <3> QED
        BY <3>1, <3>2, <1>3, <1>4, <2>1, <2>2, JoinTurn
    <2> QED
      BY <2>3, <2>4, <1>4
  <1>17. 0 .. n \subseteq S
    <2> HIDE DEF S
    <2> QED
      BY <1>4, <1>15, <1>16, EveryTurn
  <1> DEFINE found == g[n].found
  <1>18. found \in Seq(Nat) /\ Joined(g[n].at, found, here, there, G, n)
    <2>1. n \in S
      BY <1>4, <1>17
    <2> QED
      BY <2>1 DEF E, JoinStates
  <1>19. Join(s, e, date) = found
    BY <1>12 DEF g
  <1> HIDE DEF found
  <1>20. ASSUME NEW i \in DOMAIN found
         PROVE  /\ found[i] \in IdsAt(s) /\ found[i] \in IdsAt(e)
                /\ Goes(found[i], s, e, date)
    <2>1. PICK m \in 1 .. n : /\ found[i] = here[m] /\ here[m] \in G
                              /\ \E j \in DOMAIN there : there[j] = here[m]
      BY <1>18 DEF Joined
    <2>2. here[m] \in IdsAt(s)
      BY <1>3, <1>4
    <2>3. here[m] \in IdsAt(e)
      BY <1>3, <2>1
    <2> QED
      BY <2>1, <2>2, <2>3 DEF G
  <1>21. ASSUME NEW id \in IdsAt(s) \cap IdsAt(e), Goes(id, s, e, date)
         PROVE  \E i \in DOMAIN found : found[i] = id
    <2>1. PICK m \in 1 .. n : here[m] = id
      BY <1>3, <1>4
    <2>2. \E j \in DOMAIN there : there[j] = here[m]
      BY <1>3, <2>1
    <2>3. here[m] \in G
      BY <1>5, <1>21, <2>1 DEF G
    <2> QED
      BY <1>18, <2>1, <2>2, <2>3 DEF Joined
  <1>22. Rises(found)
    BY <1>18 DEF Joined
  <1> QED
    BY <1>18, <1>19, <1>20, <1>21, <1>22
-----------------------------------------------------------------------------
(* The trains found, sorted by a key and their names.                      *)
LEMMA TupleOrder ==
  ASSUME NEW x, NEW y
  PROVE  TupleLess(x, y) <=> \/ x[1] < y[1]
                             \/ x[1] = y[1] /\ x[2] < y[2]
                             \/ x[1] = y[1] /\ x[2] = y[2] /\ x[3] < y[3]
  <1>1. /\ 1 .. 3 = {1, 2, 3} /\ 1 .. 1 - 1 = {} /\ 1 .. 2 - 1 = {1}
        /\ 1 .. 3 - 1 = {1, 2}
    OBVIOUS
  <1> DEFINE P(i) == x[i] < y[i] /\ \A j \in 1 .. i - 1 : x[j] = y[j]
  <1>2. /\ P(1) <=> x[1] < y[1]
        /\ P(2) <=> x[1] = y[1] /\ x[2] < y[2]
        /\ P(3) <=> x[1] = y[1] /\ x[2] = y[2] /\ x[3] < y[3]
    BY <1>1
  <1>3. TupleLess(x, y) <=> \E i \in {1, 2, 3} : P(i)
    BY <1>1 DEF TupleLess
  <1> HIDE DEF P
  <1> QED
    BY <1>2, <1>3

LEMMA TuplesWeaklyOrdered ==
  ASSUME NEW E \in SUBSET (Int \X Nat \X Nat), NEW comp,
         comp = {pair \in E \X E : TupleLess(pair[1], pair[2])}
  PROVE  WeakOrder(comp, E)
  <1>1. \A x, y \in E : <<x, y>> \in comp <=> TupleLess(x, y)
    <2> SUFFICES ASSUME NEW x \in E, NEW y \in E
                 PROVE  <<x, y>> \in comp <=> TupleLess(x, y)
      OBVIOUS
    <2>1. <<x, y>> \in E \X E /\ <<x, y>>[1] = x /\ <<x, y>>[2] = y
      OBVIOUS
    <2> QED
      BY <2>1
  <1>2. \A x \in E : x[1] \in Int /\ x[2] \in Int /\ x[3] \in Int
    OBVIOUS
  <1> HIDE DEF WeakOrder
  <1>3. ASSUME NEW x \in E, NEW y \in E, TupleLess(x, y)
        PROVE  ~TupleLess(y, x)
    <2>1. PICK x1, x2, x3, y1, y2, y3 \in Int :
            /\ x1 = x[1] /\ x2 = x[2] /\ x3 = x[3]
            /\ y1 = y[1] /\ y2 = y[2] /\ y3 = y[3]
      BY <1>2
    <2> QED
      BY <1>3, <2>1, TupleOrder
  <1>4. ASSUME NEW x \in E, NEW y \in E, NEW z \in E,
               ~TupleLess(y, x), ~TupleLess(z, y)
        PROVE  ~TupleLess(z, x)
    <2>1. PICK x1, x2, x3, y1, y2, y3, z1, z2, z3 \in Int :
            /\ x1 = x[1] /\ x2 = x[2] /\ x3 = x[3]
            /\ y1 = y[1] /\ y2 = y[2] /\ y3 = y[3]
            /\ z1 = z[1] /\ z2 = z[2] /\ z3 = z[3]
      BY <1>2
    <2> QED
      BY <1>4, <2>1, TupleOrder
  <1>5. \A x, y \in E : <<x, y>> \in comp => <<y, x>> \notin comp
    BY <1>1, <1>3
  <1>6. \A x, y, z \in E : <<y, x>> \notin comp /\ <<z, y>> \notin comp => <<z, x>> \notin comp
    BY <1>1, <1>4
  <1> QED
    BY <1>5, <1>6 DEF WeakOrder
(* The order query_ticket sorts what it found by.                          *)
TupleComp(found) ==
  {pair \in Seqs!ToSet(found) \X Seqs!ToSet(found) : TupleLess(pair[1], pair[2])}

TuplesOf(key, name, going, n) == [i \in 1 .. n |-> <<key[i], name[i], going[i]>>]

SortedInto(sorted, m, at, found, key, name, n) ==
  /\ DOMAIN sorted = 1 .. m
  /\ \A k \in 1 .. m : sorted[k] = found[at[k]]
  /\ \A i \in 1 .. n : \E k \in 1 .. m : at[k] = i
  /\ \A j, k \in 1 .. m : j < k =>
       LexLess(<<key[at[j]], name[at[j]]>>, <<key[at[k]], name[at[k]]>>)

LEMMA SortedByKey ==
  ASSUME NEW n \in Nat, NEW key \in [1 .. n -> Int], NEW name \in [1 .. n -> Nat],
         NEW going \in [1 .. n -> Nat], \A i, j \in 1 .. n : name[i] = name[j] => i = j,
         NEW found, found = TuplesOf(key, name, going, n),
         NEW comp, comp = TupleComp(found)
  PROVE  \E m \in Nat : \E at \in [1 .. m -> 1 .. n] :
           SortedInto(Sort(found, comp), m, at, found, key, name, n)
  <1> DEFINE E == Seqs!ToSet(found)
  <1>13. found = [i \in 1 .. n |-> <<key[i], name[i], going[i]>>]
    BY DEF TuplesOf
  <1>1. E = {found[i] : i \in 1 .. n}
    BY <1>13 DEF Seqs!ToSet
  <1>2. \A i \in 1 .. n : /\ found[i] = <<key[i], name[i], going[i]>>
                          /\ key[i] \in Int /\ name[i] \in Nat /\ going[i] \in Nat
                          /\ found[i] \in E
    BY <1>1, <1>13
  <1>3. E \in SUBSET (Int \X Nat \X Nat)
    <2>1. ASSUME NEW i \in 1 .. n PROVE found[i] \in Int \X Nat \X Nat
      <3>1. <<key[i], name[i], going[i]>> \in Int \X Nat \X Nat
        BY <1>2
      <3> QED
        BY <1>2, <3>1
    <2> QED
      BY <1>1, <2>1
  <1>4. found \in Seq(E) /\ Len(found) = n
    <2>1. found \in [1 .. n -> E]
      BY <1>2, <1>13
    <2> HIDE DEF E
    <2> QED
      BY <2>1, IsASeq
  <1>5. WeakOrder(comp, E)
    BY <1>3, TuplesWeaklyOrdered DEF TupleComp
  <1> HIDE DEF E
  <1> DEFINE sorted == Sort(found, comp)
  <1>6. /\ sorted \in Seq(E) /\ Lists(sorted, found, comp, 1 .. Len(found))
    BY <1>4, <1>5, SortIsExact
  <1> HIDE DEF sorted
  <1>7. PICK m : m = Len(sorted)
    OBVIOUS
  <1>8. m \in Nat /\ DOMAIN sorted = 1 .. m
    BY <1>6, <1>7
  <1>9. PICK at \in [1 .. m -> 1 .. n] :
          /\ \A b \in 1 .. n : \E k \in 1 .. m : at[k] = b
          /\ \A k \in 1 .. m : sorted[k] = found[at[k]]
          /\ \A j, k \in 1 .. m : j < k => Before(found, comp, at[j], at[k])
    BY <1>4, <1>6, <1>7 DEF Lists, ListsAt
  <1>10. \A i, j \in 1 .. n : <<found[i], found[j]>> \in comp <=> TupleLess(found[i], found[j])
    <2> SUFFICES ASSUME NEW i \in 1 .. n, NEW j \in 1 .. n
                 PROVE  <<found[i], found[j]>> \in comp <=> TupleLess(found[i], found[j])
      OBVIOUS
    <2>1. <<found[i], found[j]>> \in E \X E
      BY <1>2
    <2>2. <<found[i], found[j]>>[1] = found[i] /\ <<found[i], found[j]>>[2] = found[j]
      OBVIOUS
    <2> QED
      BY <2>1, <2>2 DEF E, TupleComp
  <1>11. ASSUME NEW j \in 1 .. m, NEW k \in 1 .. m, j < k
         PROVE  LexLess(<<key[at[j]], name[at[j]]>>, <<key[at[k]], name[at[k]]>>)
    <2>1. PICK a \in 1 .. n, b \in 1 .. n : a = at[j] /\ b = at[k]
      BY <1>9
    <2>2. Before(found, comp, a, b)
      BY <1>9, <1>11, <2>1
    <2>3. PICK ka \in Int, na \in Nat, ga \in Nat, kb \in Int, nb \in Nat, gb \in Nat :
            /\ ka = key[a] /\ na = name[a] /\ ga = going[a]
            /\ kb = key[b] /\ nb = name[b] /\ gb = going[b]
      <3>1. /\ key[a] \in Int /\ name[a] \in Nat /\ going[a] \in Nat
            /\ key[b] \in Int /\ name[b] \in Nat /\ going[b] \in Nat
        OBVIOUS
      <3> QED
        BY <3>1
    <2>10. found[a] = <<ka, na, ga>> /\ found[b] = <<kb, nb, gb>>
      BY <1>2, <2>3
    <2>4. ~TupleLess(found[b], found[a]) /\ (TupleLess(found[a], found[b]) \/ a < b)
      BY <2>2, <1>10 DEF Before
    <2>5. a # b
      <3> SUFFICES ASSUME a = b PROVE FALSE
        OBVIOUS
      <3>1. TupleLess(found[a], found[a])
        BY <2>4
      <3> QED
        BY <2>4, <3>1
    <2>6. na # nb
      BY <2>3, <2>5
    <2>7. ~(kb < ka \/ (kb = ka /\ nb < na))
      <3>1. /\ found[b][1] = kb /\ found[a][1] = ka
            /\ found[b][2] = nb /\ found[a][2] = na
        BY <2>10
      <3> QED
        BY <2>4, <3>1, TupleOrder
    <2>8. ka < kb \/ (ka = kb /\ na < nb)
      BY <2>6, <2>7
    <2>9. LexLess(<<ka, na>>, <<kb, nb>>)
      BY <2>8 DEF LexLess
    <2> QED
      BY <2>1, <2>3, <2>9
  <1>12. SortedInto(sorted, m, at, found, key, name, n)
    BY <1>8, <1>9, <1>11 DEF SortedInto
  <1> QED
    BY <1>8, <1>12 DEF sorted
-----------------------------------------------------------------------------
(* What the queries rely on, in every reachable state.                     *)
QueriesInv ==
  /\ TrainTypeOK /\ NamesExact /\ StationIndexExact
  /\ RecordsFromInput /\ IsFiniteSet(DOMAIN trains)

LEMMA WhatQueriesSee ==
  ASSUME ProperTimetables, QueriesInv
  PROVE  /\ DOMAIN trains \subseteq Nat /\ IsFiniteSet(DOMAIN trains)
         /\ released \subseteq DOMAIN trains
         /\ \A id \in released : Regular(id) /\ trains[id].train_name \in Nat
         /\ \A i, j \in released : trains[i].train_name = trains[j].train_name => i = j
         /\ \A s \in QueryStations :
              IdsAt(s) = {id \in released : s \in StationsOf(id)}
  <1>1. DOMAIN trains \subseteq Nat /\ IsFiniteSet(DOMAIN trains)
        /\ released \subseteq DOMAIN trains
    BY QueryAssumption DEF QueriesInv, TrainTypeOK
  <1>2. \A id \in released : Regular(id)
    BY <1>1, RecordsRegular DEF QueriesInv
  <1>3. ASSUME NEW id \in released PROVE trains[id].train_name \in Nat
    <2>1. PICK name \in TrainNames, t \in TrainInputs : trains[id] = TrainInfo(name, t)
      BY <1>1 DEF QueriesInv, RecordsFromInput
    <2> QED
      BY <2>1, QueryAssumption DEF TrainInfo
  <1>4. ASSUME NEW i \in released, NEW j \in released,
               trains[i].train_name = trains[j].train_name
        PROVE  i = j
    <2>1. PICK a \in DOMAIN train_id_index : train_id_index[a] = i
      BY DEF QueriesInv, NamesExact
    <2>2. PICK b \in DOMAIN train_id_index : train_id_index[b] = j
      BY DEF QueriesInv, NamesExact
    <2>3. trains[i].train_name = a /\ trains[j].train_name = b
      BY <2>1, <2>2 DEF QueriesInv, NamesExact
    <2> QED
      BY <1>4, <2>1, <2>2, <2>3
  <1>5. \A s \in QueryStations : IdsAt(s) = {id \in released : s \in StationsOf(id)}
    BY <1>1, QueryAssumption DEF QueriesInv, StationIndexExact, IdsAt
  <1> QED
    BY <1>1, <1>2, <1>3, <1>4, <1>5

(* The key of a train is that of its ride.                                 *)
RideKey(r, by_cost) == IF by_cost THEN Cost(r) ELSE Arrival(r) - Departure(r)

LEMMA KeyOfRide ==
  ASSUME NEW id, Regular(id), NEW s \in StationsOf(id), NEW e \in StationsOf(id),
         NEW date \in Int, NEW by_cost \in BOOLEAN, Goes(id, s, e, date),
         NEW r, r = RideOf(id, s, e, date)
  PROVE  SortKey(id, s, e, by_cost) = RideKey(r, by_cost) /\ RideKey(r, by_cost) \in Int
  <1> DEFINE from == GetStationNo(id, s)
             to == GetStationNo(id, e)
             day == GetDepartDate(id, date, from)
  <1>1. from \in StationNos(id) /\ to \in StationNos(id) /\ from < to
        /\ day \in trains[id].date_beg .. trains[id].date_end
    BY StationOfNumber DEF Goes, IsOnSale
  <1>2. r.id = id /\ r.day = day /\ r.from = from /\ r.to = to
    BY DEF RideOf, Ride
  <1> HIDE DEF from, to, day
  <1>3. PICK dep, lv, ar, pf, pt :
          /\ dep = trains[id].depart_time /\ lv = trains[id].leave_time[from]
          /\ ar = trains[id].arrive_time[to]
          /\ pf = trains[id].price[from] /\ pt = trains[id].price[to]
    OBVIOUS
  <1>4. to # 0 /\ from \in Nat /\ to \in Nat /\ day \in Int
    BY <1>1, StationsCount
  <1>5. /\ dep \in 0 .. 1439 /\ lv \in 0 .. Limit - 1 /\ ar \in 0 .. Limit - 1
        /\ pf \in Int /\ pt \in Int /\ (from = 0 => lv = 0)
    BY <1>1, <1>3, <1>4 DEF Regular
  <1>6. /\ Cost(r) = pt - pf
        /\ Departure(r) = day * 1440 + dep + lv
        /\ Arrival(r) = day * 1440 + dep + ar
    BY <1>2, <1>3 DEF Cost, Departure, LeavesAt, Arrival, ArrivesAt
  <1>7. Arrival(r) - Departure(r) = ar - lv
    <2> HIDE DEF Limit
    <2> QED
      BY <1>4, <1>5, <1>6, LimitHalves
  <1>8. GetPrice(id, from, to) = pt - pf
    BY <1>3 DEF GetPrice
  <1>9. GetTravelTime(id, from, to) = ar - lv
    <2>1. CASE from = 0
      BY <1>3, <1>5, <2>1, LimitHalves DEF GetTravelTime
    <2>2. CASE from # 0
      <3>1. ar - lv \in Times
        BY <1>5, LimitHalves DEF Times
      <3> QED
        BY <1>3, <2>2, <3>1, WrapNothing DEF GetTravelTime
    <2> QED
      BY <2>1, <2>2
  <1>10. ar - lv \in Int /\ pt - pf \in Int
    BY <1>5, LimitHalves
  <1>11. CASE by_cost
    BY <1>6, <1>8, <1>10, <1>11 DEF SortKey, RideKey, from, to
  <1>12. CASE ~by_cost
    BY <1>7, <1>9, <1>10, <1>12 DEF SortKey, RideKey, from, to
  <1> QED
    BY <1>11, <1>12
-----------------------------------------------------------------------------
(* query_ticket.                                                           *)
Serves(id, s, e, date) ==
  /\ id \in released /\ s \in StationsOf(id) /\ e \in StationsOf(id)
  /\ Goes(id, s, e, date)

RideOrder(id, s, e, date, by_cost) ==
  <<RideKey(RideOf(id, s, e, date), by_cost), trains[id].train_name>>

(* The m lines are those of the trains that serve the stations, in order.  *)
LinesOf(lines, ids, m, s, e, date, by_cost) ==
  /\ DOMAIN lines = 1 .. m
  /\ \A k \in 1 .. m : /\ Serves(ids[k], s, e, date)
                       /\ lines[k] = PrintTicket(ids[k], s, e, date)
  /\ \A id \in released : Serves(id, s, e, date) => \E k \in 1 .. m : ids[k] = id
  /\ \A j, k \in 1 .. m :
       j < k => LexLess(RideOrder(ids[j], s, e, date, by_cost),
                        RideOrder(ids[k], s, e, date, by_cost))

LEMMA TicketLines ==
  ASSUME ProperTimetables, QueriesInv, NEW s \in QueryStations, NEW e \in QueryStations,
         NEW date \in Nat, NEW by_cost \in BOOLEAN
  PROVE  \E m \in Nat : \E ids \in [1 .. m -> released] :
           LinesOf(QueryTicket(s, e, date, by_cost), ids, m, s, e, date, by_cost)
  <1>1. PICK going, n : going = Join(s, e, date) /\ n = Len(going)
    OBVIOUS
  <1>2. /\ going \in Seq(Nat) /\ Rises(going)
        /\ \A i \in DOMAIN going : Serves(going[i], s, e, date)
        /\ \A id \in released : Serves(id, s, e, date) => \E i \in DOMAIN going : going[i] = id
    <2>1. /\ going \in Seq(Nat) /\ Rises(going)
          /\ \A i \in DOMAIN going :
               going[i] \in IdsAt(s) /\ going[i] \in IdsAt(e) /\ Goes(going[i], s, e, date)
          /\ \A id \in IdsAt(s) \cap IdsAt(e) : Goes(id, s, e, date) =>
               \E i \in DOMAIN going : going[i] = id
      BY <1>1, WhatQueriesSee, JoinIsExact
    <2>2. /\ IdsAt(s) = {id \in released : s \in StationsOf(id)}
          /\ IdsAt(e) = {id \in released : e \in StationsOf(id)}
      BY WhatQueriesSee
    <2>3. \A i \in DOMAIN going : Serves(going[i], s, e, date)
      BY <2>1, <2>2 DEF Serves
    <2>4. \A id \in released : Serves(id, s, e, date) => \E i \in DOMAIN going : going[i] = id
      BY <2>1, <2>2 DEF Serves
    <2> QED
      BY <2>1, <2>3, <2>4
  <1>3. /\ n \in Nat /\ DOMAIN going = 1 .. n
        /\ \A i \in 1 .. n : going[i] \in Nat /\ going[i] \in released
    BY <1>1, <1>2 DEF Serves
  <1>4. \A i, j \in 1 .. n : going[i] = going[j] => i = j
    BY <1>2, <1>3 DEF Rises
  <1> DEFINE key == [i \in 1 .. n |-> SortKey(going[i], s, e, by_cost)]
             name == [i \in 1 .. n |-> trains[going[i]].train_name]
             found == [i \in 1 .. n |-> <<key[i], name[i], going[i]>>]
             comp == TupleComp(found)
             sorted == Sort(found, comp)
  <1>5. \A i \in 1 .. n : /\ key[i] = RideKey(RideOf(going[i], s, e, date), by_cost)
                          /\ key[i] \in Int
    <2> SUFFICES ASSUME NEW i \in 1 .. n
                 PROVE  /\ SortKey(going[i], s, e, by_cost)
                             = RideKey(RideOf(going[i], s, e, date), by_cost)
                        /\ SortKey(going[i], s, e, by_cost) \in Int
      OBVIOUS
    <2>1. PICK id : id = going[i]
      OBVIOUS
    <2>2. Serves(id, s, e, date) /\ Regular(id)
      BY <1>2, <1>3, <2>1, WhatQueriesSee
    <2>3. /\ SortKey(id, s, e, by_cost) = RideKey(RideOf(id, s, e, date), by_cost)
          /\ RideKey(RideOf(id, s, e, date), by_cost) \in Int
      BY <2>2, KeyOfRide DEF Serves
    <2> QED
      BY <2>1, <2>3
  <1>6. \A i \in 1 .. n : name[i] \in Nat
    BY <1>3, WhatQueriesSee
  <1>7. \A i, j \in 1 .. n : name[i] = name[j] => i = j
    <2> SUFFICES ASSUME NEW i \in 1 .. n, NEW j \in 1 .. n,
                        trains[going[i]].train_name = trains[going[j]].train_name
                 PROVE  i = j
      OBVIOUS
    <2>1. going[i] = going[j]
      BY <1>3, WhatQueriesSee
    <2> QED
      BY <1>4, <2>1
  <1>8. key \in [1 .. n -> Int] /\ name \in [1 .. n -> Nat] /\ going \in [1 .. n -> Nat]
    <2>1. key \in [1 .. n -> Int]
      BY <1>5
    <2>2. name \in [1 .. n -> Nat]
      BY <1>6
    <2>3. going \in [1 .. n -> Nat]
      BY <1>1, <1>2
    <2> QED
      BY <2>1, <2>2, <2>3
  <1>9. QueryTicket(s, e, date, by_cost)
          = [i \in DOMAIN sorted |-> PrintTicket(sorted[i][3], s, e, date)]
    <2>1. found = [i \in DOMAIN going |-> <<SortKey(going[i], s, e, by_cost),
                                           trains[going[i]].train_name, going[i]>>]
      BY <1>3
    <2> HIDE DEF found
    <2>2. ~(date < 0)
      OBVIOUS
    <2> QED
      BY <1>1, <2>1, <2>2 DEF QueryTicket, TupleComp
  <1>10. \A i \in 1 .. n : found[i][3] = going[i]
    OBVIOUS
  <1>11. found = TuplesOf(key, name, going, n)
    BY DEF TuplesOf
  <1> HIDE DEF key, name, found
  <1>20. comp = TupleComp(found)
    OBVIOUS
  <1> HIDE DEF comp
  <1>12. PICK m \in Nat : \E at \in [1 .. m -> 1 .. n] :
           SortedInto(sorted, m, at, found, key, name, n)
    BY <1>3, <1>7, <1>8, <1>11, <1>20, SortedByKey
  <1> HIDE DEF sorted
  <1>21. PICK at \in [1 .. m -> 1 .. n] : SortedInto(sorted, m, at, found, key, name, n)
    BY <1>12
  <1>13. /\ DOMAIN sorted = 1 .. m
         /\ \A k \in 1 .. m : sorted[k] = found[at[k]]
         /\ \A i \in 1 .. n : \E k \in 1 .. m : at[k] = i
         /\ \A j, k \in 1 .. m : j < k =>
              LexLess(<<key[at[j]], name[at[j]]>>, <<key[at[k]], name[at[k]]>>)
    BY <1>21 DEF SortedInto
  <1> DEFINE ids == [k \in 1 .. m |-> going[at[k]]]
             lines == QueryTicket(s, e, date, by_cost)
  <1>14. ids \in [1 .. m -> released]
    BY <1>3
  <1>15. DOMAIN lines = 1 .. m /\ \A k \in 1 .. m : lines[k] = PrintTicket(ids[k], s, e, date)
    <2>1. \A k \in 1 .. m : sorted[k][3] = ids[k]
      BY <1>10, <1>13
    <2> HIDE DEF ids
    <2> QED
      BY <1>9, <1>13, <2>1
  <1>16. \A k \in 1 .. m : Serves(ids[k], s, e, date)
    BY <1>2, <1>3
  <1>17. ASSUME NEW id \in released, Serves(id, s, e, date)
         PROVE  \E k \in 1 .. m : ids[k] = id
    <2>1. PICK i \in 1 .. n : going[i] = id
      BY <1>2, <1>3, <1>17
    <2>2. PICK k \in 1 .. m : at[k] = i
      BY <1>13
    <2> QED
      BY <2>1, <2>2
  <1>18. ASSUME NEW j \in 1 .. m, NEW k \in 1 .. m, j < k
         PROVE  LexLess(RideOrder(ids[j], s, e, date, by_cost),
                        RideOrder(ids[k], s, e, date, by_cost))
    <2>1. \A i \in 1 .. m : RideOrder(ids[i], s, e, date, by_cost)
                              = <<key[at[i]], name[at[i]]>>
      <3> SUFFICES ASSUME NEW i \in 1 .. m
                   PROVE  RideOrder(ids[i], s, e, date, by_cost)
                            = <<key[at[i]], name[at[i]]>>
        OBVIOUS
      <3>1. at[i] \in 1 .. n
        OBVIOUS
      <3>2. key[at[i]] = RideKey(RideOf(ids[i], s, e, date), by_cost)
        BY <3>1, <1>5
      <3>3. name[at[i]] = trains[ids[i]].train_name
        BY <3>1 DEF name
      <3> QED
        BY <3>2, <3>3 DEF RideOrder
    <2> QED
      BY <1>13, <1>18, <2>1
  <1> HIDE DEF ids, lines
  <1>19. LinesOf(lines, ids, m, s, e, date, by_cost)
    BY <1>15, <1>16, <1>17, <1>18 DEF LinesOf
  <1> QED
    BY <1>14, <1>19 DEF lines
LEMMA ServedLine ==
  ASSUME ProperTimetables, QueriesInv, NEW s, NEW e, NEW d, IsDate(d),
         NEW id, Serves(id, s, e, ParseDate(d)), NEW r, r = RideOf(id, s, e, ParseDate(d)),
         NEW line, line = PrintTicket(id, s, e, ParseDate(d))
  PROVE  /\ r \in RidesOn(s, d) /\ Ends(r) = e /\ Shows(line, r)
         /\ <<line.leaves[1], line.leaves[2]>> = d
         /\ r.id = id /\ r.from < r.to /\ r \in Rides(s)
         /\ line.leaves = DateTimeString(GetLeaveTime(id, r.day, r.from))
         /\ line.arrives = DateTimeString(GetArriveTime(id, r.day, r.to))
         /\ line.seats = SeatsLeft(id, r.day, r.from, r.to)
  <1>1. \A i \in released : Regular(i)
    BY WhatQueriesSee
  <1>2. id \in released /\ s \in StationsOf(id) /\ e \in StationsOf(id)
        /\ Goes(id, s, e, ParseDate(d))
    BY DEF Serves
  <1>3. r \in RidesOn(s, d) /\ Ends(r) = e
    BY <1>1, <1>2, GoingIsRide
  <1>4. r.id = id
    BY DEF RideOf, Ride
  <1>5. r \in Rides(s) /\ r.from < r.to /\ LeavesAt(r.id, r.day, r.from) \div 1440 = ParseDate(d)
    BY <1>3 DEF RidesOn
  <1>6. ParseDate(d) \in Int /\ DateString(ParseDate(d)) = d
    BY DateTyped
  <1>7. PICK date : date = ParseDate(d)
    OBVIOUS
  <1>8. line = PrintTicket(r.id, s, Ends(r), date)
    BY <1>3, <1>4, <1>7
  <1>9. /\ Shows(line, r)
        /\ <<line.leaves[1], line.leaves[2]>> = DateString(date)
        /\ line.leaves = DateTimeString(GetLeaveTime(r.id, r.day, r.from))
        /\ line.arrives = DateTimeString(GetArriveTime(r.id, r.day, r.to))
        /\ line.seats = SeatsLeft(r.id, r.day, r.from, r.to)
    BY <1>1, <1>5, <1>6, <1>7, <1>8, LineOfRide
  <1> QED
    BY <1>3, <1>4, <1>5, <1>6, <1>7, <1>9

LEMMA TicketsShown ==
  ASSUME ProperTimetables, QueriesInv
  PROVE  TicketsExact
  <1> DEFINE Key(line, by_cost) ==
               <<ByCost(by_cost, Minutes(line.arrives) - Minutes(line.leaves),
                        line.price)[1], line.train>>
  <1>1. ASSUME NEW line, NEW r, Shows(line, r), NEW by_cost \in BOOLEAN
        PROVE  Key(line, by_cost) = <<RideKey(r, by_cost), trains[r.id].train_name>>
    BY <1>1 DEF Shows, RideKey, ByCost
  <1>2. ASSUME NEW s \in QueryStations, NEW e \in QueryStations, NEW d \in QueryDays,
               NEW by_cost \in BOOLEAN, NEW lines,
               lines = QueryTicket(s, e, ParseDate(d), by_cost)
        PROVE  /\ \A r \in {r \in RidesOn(s, d) : Ends(r) = e} :
                    \E i \in DOMAIN lines : Shows(lines[i], r)
               /\ \A i \in DOMAIN lines :
                    /\ \E r \in {r \in RidesOn(s, d) : Ends(r) = e} : Shows(lines[i], r)
                    /\ <<lines[i].leaves[1], lines[i].leaves[2]>> = d
                    /\ i > 1 => LexLess(Key(lines[i - 1], by_cost), Key(lines[i], by_cost))
    <2>1. IsDate(d)
      BY QueryAssumption
    <2>2. PICK date : date = ParseDate(d)
      OBVIOUS
    <2>3. date \in Nat
      BY <2>1, <2>2, DateTyped
    <2>4. PICK m \in Nat : \E ids \in [1 .. m -> released] :
            LinesOf(lines, ids, m, s, e, date, by_cost)
      BY <1>2, <2>2, <2>3, TicketLines
    <2>5. PICK ids \in [1 .. m -> released] : LinesOf(lines, ids, m, s, e, date, by_cost)
      BY <2>4
    <2>6. DOMAIN lines = 1 .. m
      BY <2>5 DEF LinesOf
    <2> HIDE DEF Key
    <2>7. ASSUME NEW k \in 1 .. m
          PROVE  LET r == RideOf(ids[k], s, e, date)
                 IN  /\ r \in RidesOn(s, d) /\ Ends(r) = e /\ Shows(lines[k], r)
                     /\ <<lines[k].leaves[1], lines[k].leaves[2]>> = d
                     /\ Key(lines[k], by_cost) = RideOrder(ids[k], s, e, date, by_cost)
      <3>1. PICK id, r, line : id = ids[k] /\ r = RideOf(id, s, e, date) /\ line = lines[k]
        OBVIOUS
      <3>2. Serves(id, s, e, date) /\ line = PrintTicket(id, s, e, date)
        BY <2>5, <3>1 DEF LinesOf
      <3>3. /\ r \in RidesOn(s, d) /\ Ends(r) = e /\ Shows(line, r)
            /\ <<line.leaves[1], line.leaves[2]>> = d /\ r.id = id
        BY <2>1, <2>2, <3>1, <3>2, ServedLine
      <3>4. Key(line, by_cost) = RideOrder(id, s, e, date, by_cost)
        BY <3>1, <3>3, <1>1 DEF RideOrder
      <3> QED
        BY <3>1, <3>3, <3>4
    <2>8. ASSUME NEW r \in RidesOn(s, d), Ends(r) = e
          PROVE  \E i \in DOMAIN lines : Shows(lines[i], r)
      <3>1. \A i \in released : Regular(i)
        BY WhatQueriesSee
      <3>2. /\ r.id \in released /\ Serves(r.id, s, e, date)
            /\ r = RideOf(r.id, s, e, date)
        BY <2>1, <2>2, <2>8, <3>1, RideIsGoing DEF Serves
      <3>3. PICK k \in 1 .. m : ids[k] = r.id
        BY <2>5, <3>2 DEF LinesOf
      <3>4. Shows(lines[k], r)
        BY <2>7, <3>2, <3>3
      <3> QED
        BY <2>6, <3>4
    <2>9. ASSUME NEW i \in 1 .. m, i > 1
          PROVE  LexLess(Key(lines[i - 1], by_cost), Key(lines[i], by_cost))
      <3>1. PICK j \in 1 .. m : j = i - 1 /\ j < i
        BY <2>9
      <3>2. LexLess(RideOrder(ids[j], s, e, date, by_cost),
                    RideOrder(ids[i], s, e, date, by_cost))
        BY <2>5, <3>1 DEF LinesOf
      <3>3. Key(lines[j], by_cost) = RideOrder(ids[j], s, e, date, by_cost)
            /\ Key(lines[i], by_cost) = RideOrder(ids[i], s, e, date, by_cost)
        BY <2>7
      <3> QED
        BY <3>1, <3>2, <3>3
    <2>10. ASSUME NEW i \in 1 .. m
           PROVE  /\ \E r \in {r \in RidesOn(s, d) : Ends(r) = e} : Shows(lines[i], r)
                  /\ <<lines[i].leaves[1], lines[i].leaves[2]>> = d
      BY <2>7
    <2> QED
      BY <2>6, <2>8, <2>9, <2>10
  <1> QED
    BY <1>2 DEF TicketsExact
-----------------------------------------------------------------------------
LEMMA QueriesInitInv ==
  ASSUME TrainInit
  PROVE  TrainInv /\ QueriesInv
  <1>1. TrainInv
    BY TrainInitInv
  <1>2. RecordsFromInput /\ IsFiniteSet(DOMAIN trains)
    <2>1. DOMAIN trains = {}
      BY DEF TrainInit, EmptyMap
    <2> QED
      BY <2>1, FS_EmptySet DEF RecordsFromInput
  <1> QED
    BY <1>1, <1>2 DEF TrainInv, QueriesInv

LEMMA FiniteTrains ==
  ASSUME IsFiniteSet(DOMAIN trains), [TrainNext]_trainVars
  PROVE  IsFiniteSet(DOMAIN trains)'
  <1>1. ASSUME NEW name \in TrainNames, NEW id \in TrainIds, NEW t \in TrainInputs,
               AddTrain(name, id, t)
        PROVE  IsFiniteSet(DOMAIN trains)'
    <2>1. DOMAIN trains' = DOMAIN trains \cup {id}
      BY <1>1 DEF AddTrain, Insert
    <2> QED
      BY <2>1, FS_AddElement
  <1>2. ASSUME NEW name \in TrainNames, DeleteTrain(name) \/ ReleaseTrain(name)
        PROVE  IsFiniteSet(DOMAIN trains)'
    BY <1>2 DEF DeleteTrain, ReleaseTrain
  <1>3. CASE TrainClean
    <2>1. DOMAIN trains' = {}
      BY <1>3 DEF TrainClean, EmptyMap
    <2> QED
      BY <2>1, FS_EmptySet
  <1>4. CASE UNCHANGED trainVars
    BY <1>4 DEF trainVars
  <1> QED
    BY <1>1, <1>2, <1>3, <1>4 DEF TrainNext, TrainCommand

LEMMA QueriesNextInv ==
  ASSUME TrainInv, QueriesInv, [TrainNext]_trainVars
  PROVE  (TrainInv /\ QueriesInv)'
  <1>1. TrainInv'
    BY TrainNextInv
  <1>2. RecordsFromInput'
    BY RecordsComeFromInput DEF QueriesInv
  <1>3. IsFiniteSet(DOMAIN trains)'
    BY FiniteTrains DEF QueriesInv
  <1> QED
    BY <1>1, <1>2, <1>3 DEF TrainInv, QueriesInv

(* query_ticket prints the rides of the day asked for, each once and none  *)
(* else, with the seats that are free all the way, in the order asked for: *)
(* whatever trains were added, deleted and released, for any number of     *)
(* trains and stations and any timetables whose times fit time_t.          *)
THEOREM TicketsAreExact ==
  ASSUME ProperTimetables
  PROVE  TrainSpec => []TicketsExact
  <1>1. TrainInit => TrainInv /\ QueriesInv
    BY QueriesInitInv
  <1>2. TrainInv /\ QueriesInv /\ [TrainNext]_trainVars => (TrainInv /\ QueriesInv)'
    BY QueriesNextInv
  <1>3. QueriesInv => TicketsExact
    BY TicketsShown
  <1> QED
    BY <1>1, <1>2, <1>3, PTL DEF TrainSpec
-----------------------------------------------------------------------------
(* query_transfer.  The elements of sequences put end to end are those of  *)
(* the sequences.                                                          *)
Has(s, x) == \E i \in DOMAIN s : s[i] = x

InSome(x, seqs, n) == \E i \in 1 .. n : Has(seqs[i], x)

LEMMA Elements ==
  ASSUME NEW E, NEW s \in Seq(E), NEW t \in Seq(E)
  PROVE  /\ s \o t \in Seq(E)
         /\ \A x : Has(s \o t, x) <=> Has(s, x) \/ Has(t, x)
  <1> DEFINE both == s \o t
  <1>1. PICK l \in Nat, m \in Nat : l = Len(s) /\ m = Len(t)
    OBVIOUS
  <1>2. /\ DOMAIN s = 1 .. l /\ DOMAIN t = 1 .. m /\ DOMAIN both = 1 .. l + m
        /\ \A i \in 1 .. l : both[i] = s[i]
        /\ \A i \in 1 .. m : both[i + l] = t[i]
        /\ both \in Seq(E)
    BY <1>1
  <1> HIDE DEF both
  <1>3. ASSUME NEW i \in 1 .. l + m
        PROVE  i \in 1 .. l \/ \E j \in 1 .. m : i = j + l
    <2>1. i > l => i - l \in 1 .. m /\ i = (i - l) + l
      OBVIOUS
    <2> QED
      BY <2>1
  <1>4. (1 .. l \subseteq 1 .. l + m) /\ \A i \in 1 .. m : i + l \in 1 .. l + m
    OBVIOUS
  <1>5. ASSUME NEW x
        PROVE  Has(both, x) <=> Has(s, x) \/ Has(t, x)
    <2>1. Has(s, x) => Has(both, x)
      BY <1>2, <1>4 DEF Has
    <2>2. ASSUME NEW i \in DOMAIN t, t[i] = x
          PROVE  Has(both, x)
      <3>1. i + l \in DOMAIN both /\ both[i + l] = x
        BY <2>2, <1>2, <1>4
      <3> QED
        BY <3>1 DEF Has
    <2>3. ASSUME NEW i \in DOMAIN both, both[i] = x
          PROVE  Has(s, x) \/ Has(t, x)
      <3>1. CASE i \in 1 .. l
        BY <2>3, <3>1, <1>2 DEF Has
      <3>2. CASE \E j \in 1 .. m : i = j + l
        BY <2>3, <3>2, <1>2 DEF Has
      <3> QED
        BY <3>1, <3>2, <1>2, <1>3
    <2> QED
      BY <2>1, <2>2, <2>3 DEF Has
  <1> QED
    BY <1>2, <1>5 DEF both

LEMMA FlattenIsAll ==
  ASSUME NEW E, NEW n \in Nat, NEW seqs, seqs \in [1 .. n -> Seq(E)]
  PROVE  /\ Seqs!FlattenSeq(seqs) \in Seq(E)
         /\ \A x : Has(Seqs!FlattenSeq(seqs), x) <=> InSome(x, seqs, n)
  <1> DEFINE step == [x \in Seq(E) \X (1 .. n) |-> x[1] \o seqs[x[2]]]
             Body(f) == [i \in 1 .. Len(seqs) |->
                           IF i = 1 THEN seqs[i] ELSE f[i - 1] \o seqs[i]]
  <1>1. Len(seqs) = n
    OBVIOUS
  <1>2. << >> \in Seq(E) /\ step \in [Seq(E) \X (1 .. n) -> Seq(E)]
    OBVIOUS
  <1>3. PICK f \in [0 .. n -> Seq(E)] : Turns(f, << >>, step, n)
    <2> HIDE DEF step
    <2> QED
      BY <1>2, LoopExists
  <1>4. f[0] = << >>
    BY <1>3 DEF Turns
  <1> DEFINE Longer(k) == /\ f[k] = f[k - 1] \o seqs[k]
                          /\ f[k - 1] \in Seq(E) /\ seqs[k] \in Seq(E)
  <1>5. ASSUME NEW k \in 1 .. n
        PROVE  Longer(k)
    <2>1. f[k] = step[<<f[k - 1], k>>]
      BY <1>3 DEF Turns
    <2>2. k - 1 \in 0 .. n
      OBVIOUS
    <2>3. f[k - 1] \in Seq(E)
      BY <2>2
    <2> QED
      BY <2>1, <2>3
  <1> HIDE DEF Longer
  <1>11. f[1] = seqs[1] \/ n = 0
    <2> SUFFICES ASSUME 1 \in 1 .. n PROVE f[1] = seqs[1]
      OBVIOUS
    <2>1. f[1] = f[1 - 1] \o seqs[1] /\ f[1 - 1] = << >> /\ seqs[1] \in Seq(E)
      <3>1. Longer(1)
        BY <1>5
      <3>2. 1 - 1 = 0
        OBVIOUS
      <3> QED
        BY <3>1, <3>2, <1>4 DEF Longer
    <2>2. \A q \in Seq(E) : << >> \o q = q
      OBVIOUS
    <2> QED
      BY <2>1, <2>2
  <1> HIDE DEF step
  <1> DEFINE S == {k \in 0 .. n :
                     \A x : Has(f[k], x) <=> InSome(x, seqs, k)}
  <1>6. 0 \in S
    BY <1>4 DEF InSome, Has
  <1>7. ASSUME NEW k \in 1 .. n, k - 1 \in S
        PROVE  k \in S
    <2> SUFFICES ASSUME NEW x
                 PROVE  Has(f[k], x) <=> InSome(x, seqs, k)
      OBVIOUS
    <2>1. Has(f[k - 1], x) <=> InSome(x, seqs, k - 1)
      BY <1>7
    <2>2. Has(f[k], x) <=> Has(f[k - 1], x) \/ Has(seqs[k], x)
      <3>1. Longer(k)
        BY <1>5
      <3> QED
        BY <3>1, Elements DEF Longer
    <2>3. \A i \in 1 .. k : i = k \/ i \in 1 .. k - 1
      OBVIOUS
    <2>4. 1 .. k - 1 \subseteq 1 .. k /\ k \in 1 .. k
      OBVIOUS
    <2>5. InSome(x, seqs, k) <=>
            InSome(x, seqs, k - 1) \/ Has(seqs[k], x)
      BY <2>3, <2>4 DEF InSome
    <2> QED
      BY <2>1, <2>2, <2>5
  <1>8. 0 .. n \subseteq S
    <2> HIDE DEF S
    <2> QED
      BY <1>6, <1>7, EveryTurn
  <1>9. CASE n = 0
    <2>1. Seqs!FlattenSeq(seqs) = seqs /\ seqs = << >>
      BY <1>9, <1>1 DEF Seqs!FlattenSeq
    <2> QED
      BY <2>1, <1>9 DEF InSome, Has
  <1>10. CASE n # 0
    <2> DEFINE g == [i \in 1 .. n |-> f[i]]
    <2>1. g = Body(g)
      <3>1. \A i \in 1 .. n : g[i] = IF i = 1 THEN seqs[i] ELSE g[i - 1] \o seqs[i]
        <4> SUFFICES ASSUME NEW i \in 1 .. n
                     PROVE  f[i] = IF i = 1 THEN seqs[i] ELSE g[i - 1] \o seqs[i]
          OBVIOUS
        <4>1. CASE i = 1
          BY <4>1, <1>10, <1>11
        <4>2. CASE i # 1
          <5>1. i - 1 \in 1 .. n
            BY <4>2
          <5>2. g[i - 1] = f[i - 1]
            BY <5>1
          <5>3. Longer(i)
            BY <1>5
          <5> HIDE DEF g
          <5> QED
            BY <4>2, <5>2, <5>3 DEF Longer
        <4> QED
          BY <4>1, <4>2
      <3> QED
        BY <3>1, <1>1
    <2> DEFINE h == CHOOSE h : h = Body(h)
    <2>2. h = Body(h)
      <3> HIDE DEF Body
      <3> QED
        BY <2>1
    <2>3. Seqs!FlattenSeq(seqs) = h[n]
      BY <1>1, <1>10 DEF Seqs!FlattenSeq
    <2> HIDE DEF h
    <2> DEFINE T == {k \in 0 .. n : k >= 1 => h[k] = f[k]}
    <2>4. 0 \in T
      OBVIOUS
    <2>5. ASSUME NEW k \in 1 .. n, k - 1 \in T
          PROVE  k \in T
      <3>1. h[k] = IF k = 1 THEN seqs[k] ELSE h[k - 1] \o seqs[k]
        BY <2>2, <1>1
      <3>2. CASE k = 1
        BY <3>1, <3>2, <1>10, <1>11
      <3>3. CASE k # 1
        <4>1. h[k - 1] = f[k - 1]
          BY <3>3, <2>5
        <4>2. h[k] = f[k - 1] \o seqs[k]
          BY <3>1, <3>3, <4>1
        <4>3. Longer(k)
          BY <1>5
        <4>4. f[k] = f[k - 1] \o seqs[k]
          BY <4>3 DEF Longer
        <4>5. h[k] = f[k]
          BY <4>2, <4>4
        <4> QED
          BY <4>5
      <3> QED
        BY <3>2, <3>3
    <2>6. 0 .. n \subseteq T
      <3> HIDE DEF T
      <3> QED
        BY <2>4, <2>5, EveryTurn
    <2>7. h[n] = f[n] /\ n \in 0 .. n
      BY <2>6, <1>10
    <2>8. f[n] \in Seq(E) /\ n \in S
      BY <1>8, <2>7
    <2> QED
      BY <2>3, <2>7, <2>8
  <1> QED
    BY <1>9, <1>10
LEMMA TrainsAtServed ==
  ASSUME ProperTimetables, QueriesInv, NEW s \in QueryStations
  PROVE  /\ TrainsAt(s) \in Seq(released)
         /\ \A i \in DOMAIN TrainsAt(s) : s \in StationsOf(TrainsAt(s)[i])
         /\ \A id \in released : s \in StationsOf(id) => Has(TrainsAt(s), id)
  <1>1. PICK here : here = TrainsAt(s)
    OBVIOUS
  <1>2. /\ here \in Seq(IdsAt(s))
        /\ \A id \in IdsAt(s) : \E i \in DOMAIN here : here[i] = id
    BY <1>1, WhatQueriesSee, TrainsAtStation
  <1>3. IdsAt(s) = {id \in released : s \in StationsOf(id)}
    BY WhatQueriesSee
  <1>4. \A i \in DOMAIN here : here[i] \in released /\ s \in StationsOf(here[i])
    BY <1>2, <1>3
  <1>5. here \in Seq(released)
    BY <1>2, <1>4
  <1> QED
    BY <1>1, <1>2, <1>3, <1>4, <1>5 DEF Has

(* The first train of a change, as FirstTrainsOf describes its ride.       *)
FirstOf(r) ==
  [at |-> Ends(r), id |-> r.id, arrive_time |-> Arrival(r),
   depart_time |-> Departure(r), cost |-> Cost(r)]

Firsts(s, d) == {FirstOf(r) : r \in RidesOn(s, d)}

(* What a ride of a regular train is.                                      *)
LEMMA RideTimes ==
  ASSUME NEW id \in released, Regular(id), NEW day \in Int, NEW from \in StationNos(id),
         NEW to \in StationNos(id), from < to, NEW r, r = Ride(id, day, from, to)
  PROVE  /\ r.id = id /\ r.day = day /\ r.from = from /\ r.to = to
         /\ Ends(r) = trains[id].stations[to]
         /\ Departure(r) = GetLeaveTime(id, day, from) /\ Departure(r) \in Int
         /\ Arrival(r) = GetArriveTime(id, day, to) /\ Arrival(r) \in Int
         /\ day \in Nat => Departure(r) \in Nat /\ Arrival(r) \in Nat
         /\ Cost(r) = GetPrice(id, from, to) /\ Cost(r) \in Int
         /\ Departure(r) = LeavesAt(id, day, from)
         /\ Arrival(r) = ArrivesAt(id, day, to)
  <1>1. r.id = id /\ r.day = day /\ r.from = from /\ r.to = to
    BY DEF Ride
  <1>2. from # LastStation(id) /\ to # 0
    BY StationsCount
  <1>3. Departure(r) = LeavesAt(id, day, from) /\ Arrival(r) = ArrivesAt(id, day, to)
    BY <1>1 DEF Departure, Arrival
  <1>4. /\ GetLeaveTime(id, day, from) = LeavesAt(id, day, from)
        /\ LeavesAt(id, day, from) \in Int
        /\ day \in Nat => LeavesAt(id, day, from) \in Nat
    BY <1>2, LeaveTimeShown
  <1>5. /\ GetArriveTime(id, day, to) = ArrivesAt(id, day, to)
        /\ ArrivesAt(id, day, to) \in Int
        /\ day \in Nat => ArrivesAt(id, day, to) \in Nat
    BY <1>2, ArriveTimeShown
  <1>6. Cost(r) = GetPrice(id, from, to)
    BY <1>1 DEF Cost, GetPrice
  <1>7. GetPrice(id, from, to) \in Int
    <2>1. trains[id].price[from] \in Int /\ trains[id].price[to] \in Int
      BY DEF Regular
    <2> QED
      BY <2>1 DEF GetPrice
  <1>8. Ends(r) = trains[id].stations[to]
    BY <1>1 DEF Ends
  <1> QED
    BY <1>1, <1>3, <1>4, <1>5, <1>6, <1>7, <1>8

LEMMA FirstsOfTrain ==
  ASSUME NEW id \in released, Regular(id), NEW s \in StationsOf(id),
         NEW d, IsDate(d)
  PROVE  /\ FirstTrainsOf(id, s, ParseDate(d)) \in Seq(Firsts(s, d))
         /\ \A r \in RidesOn(s, d) :
              r.id = id => Has(FirstTrainsOf(id, s, ParseDate(d)), FirstOf(r))
  <1>1. PICK from, date, day, last :
          /\ from = GetStationNo(id, s) /\ date = ParseDate(d)
          /\ day = GetDepartDate(id, date, from) /\ last = LastStation(id)
    OBVIOUS
  <1>2. /\ from \in StationNos(id) /\ trains[id].stations[from] = s
        /\ date \in Int /\ last \in Nat /\ StationNos(id) = 0 .. last
    <2>1. from \in StationNos(id) /\ trains[id].stations[from] = s
      BY <1>1, StationOfNumber
    <2>2. date \in Int
      BY <1>1, DateTyped
    <2>3. last \in Nat /\ StationNos(id) = 0 .. last
      BY <1>1, StationsCount
    <2> QED
      BY <2>1, <2>2, <2>3
  <1>7. from \in StationNos(id)
    BY <1>2
  <1>8. \A n \in Int : LeavesAt(id, n, from) \div 1440 = date <=> n = day
    <2> SUFFICES ASSUME NEW n \in Int
                 PROVE  LeavesAt(id, n, from) \div 1440 = date <=> n = day
      OBVIOUS
    <2>1. date \in Int
      BY <1>2
    <2>2. LeavesAt(id, n, from) \div 1440 = date <=> n = GetDepartDate(id, date, from)
      BY <1>7, <2>1, DepartsOnce
    <2> QED
      BY <1>1, <2>2
  <1> DEFINE none == from = last \/ ~IsOnSale(id, day)
             seq == [k \in 1 .. last - from |->
                       [at |-> trains[id].stations[from + k], id |-> id,
                        arrive_time |-> GetArriveTime(id, day, from + k),
                        depart_time |-> GetLeaveTime(id, day, from),
                        cost |-> GetPrice(id, from, from + k)]]
             list == FirstTrainsOf(id, s, date)
  <1>3. list = IF none THEN << >> ELSE seq
    BY <1>1 DEF FirstTrainsOf
  <1> HIDE DEF list
  <1>4. ASSUME ~none, NEW k \in 1 .. last - from, NEW r,
               r = Ride(id, day, from, from + k)
        PROVE  r \in RidesOn(s, d) /\ seq[k] = FirstOf(r)
    <2>1. day \in trains[id].date_beg .. trains[id].date_end
      BY <1>4 DEF IsOnSale
    <2>2. day \in Int
      BY <2>1, StationsCount
    <2>3. /\ from + k \in StationNos(id) /\ from < from + k
          /\ from + k \in 1 .. last /\ from \in 0 .. last
      BY <1>2
    <2>4. /\ r.id = id /\ r.day = day /\ r.from = from /\ r.to = from + k
          /\ Ends(r) = trains[id].stations[from + k]
          /\ Departure(r) = GetLeaveTime(id, day, from)
          /\ Arrival(r) = GetArriveTime(id, day, from + k)
          /\ Cost(r) = GetPrice(id, from, from + k)
      <3>1. PICK to : to = from + k
        OBVIOUS
      <3>2. to \in StationNos(id) /\ from < to /\ r = Ride(id, day, from, to)
        BY <2>3, <3>1, <1>4
      <3>3. /\ r.id = id /\ r.day = day /\ r.from = from /\ r.to = to
            /\ Ends(r) = trains[id].stations[to]
            /\ Departure(r) = GetLeaveTime(id, day, from)
            /\ Arrival(r) = GetArriveTime(id, day, to)
            /\ Cost(r) = GetPrice(id, from, to)
        BY <3>2, <2>2, <1>7, RideTimes
      <3> QED
        BY <3>1, <3>3
    <2>5. r \in Rides(s)
      BY <1>1, <1>2, <1>4, <2>1, <2>3, RideExists
    <2>6. LeavesAt(id, day, from) \div 1440 = date
      BY <1>8, <2>2
    <2>7. r \in RidesOn(s, d)
      BY <1>1, <2>3, <2>4, <2>5, <2>6 DEF RidesOn
    <2> QED
      BY <2>4, <2>7 DEF FirstOf
  <1>5. list \in Seq(Firsts(s, d))
    <2>1. CASE none
      BY <2>1, <1>3
    <2>2. CASE ~none
      <3>1. \A k \in 1 .. last - from : seq[k] \in Firsts(s, d)
        <4> HIDE DEF seq, none
        <4> QED
          BY <2>2, <1>4 DEF Firsts
      <3>2. last - from \in Nat
        BY <1>2
      <3>3. seq \in [1 .. last - from -> Firsts(s, d)]
        BY <3>1
      <3>4. seq \in Seq(Firsts(s, d))
        <4> HIDE DEF seq
        <4> QED
          BY <3>2, <3>3
      <3> QED
        BY <2>2, <3>4, <1>3
    <2> QED
      BY <2>1, <2>2
  <1>6. ASSUME NEW r \in RidesOn(s, d), r.id = id
        PROVE  Has(list, FirstOf(r))
    <2>1. /\ r \in Rides(s) /\ r.from < r.to
          /\ LeavesAt(id, r.day, r.from) \div 1440 = date
      BY <1>1, <1>6 DEF RidesOn
    <2>2. /\ r = Ride(id, r.day, r.from, r.to)
          /\ r.day \in trains[id].date_beg .. trains[id].date_end
          /\ r.from \in 0 .. last /\ trains[id].stations[r.from] = s
          /\ r.to \in 1 .. last
      BY <1>1, <1>6, <2>1, RideParts
    <2>3. r.from = from
      BY <1>1, <1>2, <2>2, NumberOfStation
    <2>4. r.day \in Int
      BY <2>2, StationsCount
    <2>5. r.day = day
      BY <1>8, <2>1, <2>3, <2>4
    <2>6. ~none
      BY <1>2, <2>1, <2>2, <2>3, <2>5 DEF IsOnSale
    <2>7. PICK k \in 1 .. last - from : r.to = from + k
      <3>1. r.to - from \in 1 .. last - from /\ r.to = from + (r.to - from)
        BY <1>2, <2>1, <2>2, <2>3
      <3> QED
        BY <3>1
    <2>8. r = Ride(id, day, from, from + k)
      BY <2>2, <2>3, <2>5, <2>7
    <2>9. list = seq /\ seq[k] = FirstOf(r)
      <3> HIDE DEF seq, none
      <3> QED
        BY <1>3, <1>4, <2>6, <2>8
    <2>10. k \in DOMAIN seq
      OBVIOUS
    <2> HIDE DEF seq
    <2> QED
      BY <2>9, <2>10 DEF Has
  <1> QED
    BY <1>1, <1>5, <1>6 DEF list
LEMMA FirstTrainsExact ==
  ASSUME ProperTimetables, QueriesInv, NEW s \in QueryStations, NEW d, IsDate(d)
  PROVE  /\ FirstTrains(s, ParseDate(d)) \in Seq(Firsts(s, d))
         /\ \A r \in RidesOn(s, d) : Has(FirstTrains(s, ParseDate(d)), FirstOf(r))
  <1>1. PICK here, n, date : here = TrainsAt(s) /\ n = Len(here) /\ date = ParseDate(d)
    OBVIOUS
  <1>2. /\ here \in Seq(released) /\ \A i \in DOMAIN here : s \in StationsOf(here[i])
        /\ \A id \in released : s \in StationsOf(id) => Has(here, id)
    BY <1>1, TrainsAtServed
  <1>3. n \in Nat /\ DOMAIN here = 1 .. n
    BY <1>1, <1>2
  <1> DEFINE seqs == [i \in 1 .. n |-> FirstTrainsOf(here[i], s, date)]
             E == Firsts(s, d)
  <1>4. \A id \in released : Regular(id)
    BY WhatQueriesSee
  <1>5. ASSUME NEW i \in 1 .. n
        PROVE  /\ seqs[i] \in Seq(E)
               /\ \A r \in RidesOn(s, d) : r.id = here[i] => Has(seqs[i], FirstOf(r))
    <2>1. PICK id : id = here[i]
      OBVIOUS
    <2>2. id \in released /\ s \in StationsOf(id) /\ Regular(id)
      BY <1>2, <1>3, <1>4, <2>1
    <2>3. /\ FirstTrainsOf(id, s, date) \in Seq(E)
          /\ \A r \in RidesOn(s, d) : r.id = id => Has(FirstTrainsOf(id, s, date), FirstOf(r))
      BY <1>1, <2>2, FirstsOfTrain
    <2>4. seqs[i] = FirstTrainsOf(id, s, date)
      BY <2>1
    <2> HIDE DEF seqs
    <2> QED
      BY <2>1, <2>3, <2>4
  <1>6. FirstTrains(s, date) = Seqs!FlattenSeq(seqs)
    BY <1>1, <1>3 DEF FirstTrains
  <1>7. DOMAIN seqs = 1 .. n /\ seqs = [i \in 1 .. n |-> seqs[i]]
    OBVIOUS
  <1> HIDE DEF seqs
  <1>8. seqs \in [1 .. n -> Seq(E)]
    BY <1>5, <1>7
  <1> HIDE DEF E
  <1>9. /\ Seqs!FlattenSeq(seqs) \in Seq(E)
        /\ \A x : Has(Seqs!FlattenSeq(seqs), x) <=> InSome(x, seqs, n)
    BY <1>3, <1>8, FlattenIsAll
  <1>10. ASSUME NEW r \in RidesOn(s, d)
         PROVE  Has(Seqs!FlattenSeq(seqs), FirstOf(r))
    <2>1. r.id \in released /\ s \in StationsOf(r.id)
      BY <1>4, RideIsGoing
    <2>2. PICK i \in 1 .. n : here[i] = r.id
      BY <1>2, <1>3, <2>1 DEF Has
    <2>3. Has(seqs[i], FirstOf(r))
      BY <1>5, <2>2
    <2>4. InSome(FirstOf(r), seqs, n)
      BY <2>3 DEF InSome
    <2> QED
      BY <1>9, <2>4
  <1> QED
    BY <1>1, <1>6, <1>9, <1>10 DEF E

-----------------------------------------------------------------------------
(* The second train leaves on the first day on which it can.               *)
LEMMA MaxOfTwo ==
  ASSUME NEW a \in Int, NEW b \in Int
  PROVE  Sets!Max({a, b}) = IF a >= b THEN a ELSE b
  <1>1. Sets!Max({a, b}) = CHOOSE x \in {a, b} : \A y \in {a, b} : x >= y
    BY DEF Sets!Max
  <1> DEFINE P(x) == x \in {a, b} /\ \A y \in {a, b} : x >= y
             m == IF a >= b THEN a ELSE b
  <1>2. P(m) /\ \A x : P(x) => x = m
    OBVIOUS
  <1>3. Sets!Max({a, b}) = CHOOSE x : P(x)
    BY <1>1
  <1> HIDE DEF P, m
  <1>4. (CHOOSE x : P(x)) = m
    BY <1>2
  <1> QED
    BY <1>3, <1>4 DEF m

LEMMA QuotientBounds ==
  ASSUME NEW x \in Int, NEW q, q = x \div 1440
  PROVE  q \in Int /\ q * 1440 <= x /\ x < q * 1440 + 1440
  BY SMT

LEMMA FirstSuitableDay ==
  ASSUME NEW id, Regular(id), NEW no \in StationNos(id), no # LastStation(id),
         NEW arrive \in Nat, NEW day, day = SecondDepartDate(id, no, arrive)
  PROVE  /\ day \in Int /\ day >= trains[id].date_beg
         /\ LeavesAt(id, day, no) >= arrive
         /\ \A other \in Int :
              other >= trains[id].date_beg /\ LeavesAt(id, other, no) >= arrive =>
                day <= other
  <1>0. PICK beg \in Nat, a \in Nat : beg = trains[id].date_beg /\ a = LeavesAfter(id, no)
    <2>1. trains[id].date_beg \in Nat
      BY DEF Regular
    <2>2. LeavesAfter(id, no) \in Nat
      BY LeavesAfterNat
    <2> QED
      BY <2>1, <2>2
  <1>1. PICK q, date : /\ q = arrive \div 1440 /\ date = GetDepartDate(id, q, no)
                       /\ beg = trains[id].date_beg /\ a = LeavesAfter(id, no)
    BY <1>0
  <1>2. \A n \in Int : LeavesAt(id, n, no) = n * 1440 + a
    BY <1>1, LeavesAfterNat
  <1>3. q \in Int /\ q * 1440 <= arrive /\ arrive < q * 1440 + 1440
    <2>1. arrive \in Int /\ q = arrive \div 1440
      BY <1>1
    <2> QED
      BY <2>1, QuotientBounds
  <1>4. date \in Int
    BY <1>1, <1>3, DepartDate, LeavesAfterNat
  <1>5. LeavesAt(id, date, no) \div 1440 = q
    BY <1>1, <1>3, <1>4, DepartsOnce
  <1>6. PICK l \in Int : l = date * 1440 + a /\ l = LeavesAt(id, date, no)
    BY <1>2, <1>4
  <1>7. q * 1440 <= l /\ l < q * 1440 + 1440
    BY <1>5, <1>6, QuotientBounds
  <1> DEFINE next == IF l < arrive THEN date + 1 ELSE date
  <1>8. day = Sets!Max({next, beg})
    <2>1. DivC(arrive, 1440) = q
      BY <1>1 DEF DivC
    <2>2. GetLeaveTime(id, date, no) = l
      BY <1>4, <1>6, LeaveTimeShown
    <2> QED
      BY <1>1, <2>1, <2>2 DEF SecondDepartDate
  <1>9. next \in Int
    BY <1>4
  <1>10. day = IF next >= beg THEN next ELSE beg
    <2> HIDE DEF next
    <2> QED
      BY <1>8, <1>9, MaxOfTwo
  <1>11. day \in Int /\ day >= beg /\ day >= next
    BY <1>4, <1>10
  <1>12. next * 1440 + a >= arrive
    BY <1>3, <1>4, <1>6, <1>7
  <1>13. \A other \in Int : other * 1440 + a >= arrive => next <= other
    BY <1>3, <1>4, <1>6, <1>7
  <1> HIDE DEF next
  <1>14. day * 1440 + a >= arrive
    BY <1>9, <1>11, <1>12
  <1>15. \A other \in Int : other >= beg /\ other * 1440 + a >= arrive => day <= other
    BY <1>10, <1>13
  <1> QED
    BY <1>1, <1>2, <1>11, <1>14, <1>15
LEMMA RideFacts ==
  ASSUME \A id \in released : Regular(id),
         NEW s, NEW r \in Rides(s), r.from < r.to
  PROVE  /\ r = Ride(r.id, r.day, r.from, r.to) /\ r.id \in released /\ Regular(r.id)
         /\ r.day \in trains[r.id].date_beg .. trains[r.id].date_end /\ r.day \in Nat
         /\ r.from \in StationNos(r.id) /\ r.to \in StationNos(r.id)
         /\ r.from \in 0 .. LastStation(r.id) /\ r.to \in 1 .. LastStation(r.id)
         /\ trains[r.id].stations[r.from] = s
         /\ r.from # LastStation(r.id)
         /\ Departure(r) \in Nat /\ Arrival(r) \in Nat /\ Cost(r) \in Int
  <1>1. /\ r = Ride(r.id, r.day, r.from, r.to)
        /\ r.id \in released
        /\ r.day \in trains[r.id].date_beg .. trains[r.id].date_end
        /\ r.from \in 0 .. LastStation(r.id) /\ trains[r.id].stations[r.from] = s
        /\ r.to \in 1 .. LastStation(r.id)
    BY RideParts
  <1>2. Regular(r.id)
    BY <1>1
  <1>3. /\ r.day \in Nat /\ r.from \in StationNos(r.id) /\ r.to \in StationNos(r.id)
        /\ r.from # LastStation(r.id)
    BY <1>1, <1>2, StationsCount
  <1>4. Departure(r) \in Nat /\ Arrival(r) \in Nat /\ Cost(r) \in Int
    <2>1. PICK id, day, from, to : id = r.id /\ day = r.day /\ from = r.from /\ to = r.to
      OBVIOUS
    <2>2. /\ id \in released /\ Regular(id) /\ day \in Nat /\ day \in Int
          /\ from \in StationNos(id) /\ to \in StationNos(id) /\ from < to
          /\ r = Ride(id, day, from, to)
      BY <1>1, <1>2, <1>3, <2>1
    <2>3. (day \in Nat => Departure(r) \in Nat /\ Arrival(r) \in Nat) /\ Cost(r) \in Int
      BY <2>2, RideTimes
    <2> QED
      BY <2>2, <2>3
  <1> QED
    BY <1>1, <1>2, <1>3, <1>4

(* The option that stands for an itinerary.                                *)
OptionOf(t, by_cost) ==
  [first_key |-> ItineraryKey(t, by_cost)[1], second_key |-> ItineraryKey(t, by_cost)[2],
   ids |-> <<t[1].id, t[2].id>>, at |-> Ends(t[1]),
   second_date |-> Departure(t[2]) \div 1440]

Connects(r1, r2) ==
  r2.id # r1.id /\ r2.from < r2.to /\ Departure(r2) >= Arrival(r1)

LEMMA ItineraryParts ==
  ASSUME NEW s, NEW e, NEW d
  PROVE  /\ \A u \in Itineraries(s, e, d) :
              /\ u = <<u[1], u[2]>> /\ u[1] \in RidesOn(s, d)
              /\ u[2] \in Rides(Ends(u[1])) /\ Ends(u[2]) = e /\ Connects(u[1], u[2])
         /\ \A r1 \in RidesOn(s, d) : \A r2 \in Rides(Ends(r1)) :
              Ends(r2) = e /\ Connects(r1, r2) => <<r1, r2>> \in Itineraries(s, e, d)
  <1>1. ASSUME NEW u \in Itineraries(s, e, d)
        PROVE  /\ u = <<u[1], u[2]>> /\ u[1] \in RidesOn(s, d)
               /\ u[2] \in Rides(Ends(u[1])) /\ Ends(u[2]) = e /\ Connects(u[1], u[2])
    <2>1. PICK r1 \in RidesOn(s, d) :
            u \in {<<r1, r2>> : r2 \in {r \in Rides(Ends(r1)) :
                     /\ r.id # r1.id /\ r.from < r.to /\ Ends(r) = e
                     /\ Departure(r) >= Arrival(r1)}}
      BY DEF Itineraries
    <2>2. PICK r2 \in Rides(Ends(r1)) :
            /\ r2.id # r1.id /\ r2.from < r2.to /\ Ends(r2) = e
            /\ Departure(r2) >= Arrival(r1) /\ u = <<r1, r2>>
      BY <2>1
    <2>3. u[1] = r1 /\ u[2] = r2
      BY <2>2
    <2> QED
      BY <2>2, <2>3 DEF Connects
  <1>2. ASSUME NEW r1 \in RidesOn(s, d), NEW r2 \in Rides(Ends(r1)),
               Ends(r2) = e, Connects(r1, r2)
        PROVE  <<r1, r2>> \in Itineraries(s, e, d)
    <2>1. r2 \in {r \in Rides(Ends(r1)) :
                    /\ r.id # r1.id /\ r.from < r.to /\ Ends(r) = e
                    /\ Departure(r) >= Arrival(r1)}
      BY <1>2 DEF Connects
    <2>2. <<r1, r2>> \in {<<r1, r>> : r \in {r \in Rides(Ends(r1)) :
                    /\ r.id # r1.id /\ r.from < r.to /\ Ends(r) = e
                    /\ Departure(r) >= Arrival(r1)}}
      BY <2>1
    <2> QED
      BY <2>2 DEF Itineraries
  <1> QED
    BY <1>1, <1>2

LEMMA ChangeIsOption ==
  ASSUME ProperTimetables, QueriesInv, NEW s, NEW e, NEW d, IsDate(d),
         NEW r1 \in RidesOn(s, d), NEW id \in released, e \in StationsOf(id),
         NEW to, to = GetStationNo(id, e), NEW no \in 0 .. to - 1,
         NEW first, first = FirstOf(r1), NEW by_cost \in BOOLEAN,
         trains[id].stations[no] = Ends(r1), r1.id # id,
         NEW day, day = SecondDepartDate(id, no, Arrival(r1)),
         NEW r2, r2 = Ride(id, day, no, to), day <= trains[id].date_end
  PROVE  /\ Feeds(first, id, no)
         /\ <<r1, r2>> \in Itineraries(s, e, d)
         /\ Option(first, id, no, to, by_cost) = OptionOf(<<r1, r2>>, by_cost)
  <1>1. \A i \in released : Regular(i)
    BY WhatQueriesSee
  <1>2. Regular(id) /\ r1 \in Rides(s) /\ r1.from < r1.to
    BY <1>1 DEF RidesOn
  <1>3. Arrival(r1) \in Nat /\ Departure(r1) \in Nat /\ Cost(r1) \in Int
    BY <1>1, <1>2, RideFacts
  <1>4. to \in StationNos(id) /\ trains[id].stations[to] = e
    BY <1>2, StationOfNumber
  <1>5. /\ no \in StationNos(id) /\ no # LastStation(id) /\ no < to
        /\ no \in 0 .. LastStation(id) /\ to \in 1 .. LastStation(id)
        /\ trains[id].date_beg \in Nat /\ trains[id].date_end \in Nat
    BY <1>2, <1>4, StationsCount
  <1>6. /\ day \in Int /\ day >= trains[id].date_beg
        /\ LeavesAt(id, day, no) >= Arrival(r1)
    BY <1>2, <1>3, <1>5, FirstSuitableDay
  <1>7. day \in trains[id].date_beg .. trains[id].date_end /\ day \in Nat
    BY <1>5, <1>6
  <1>8. r2 \in Rides(Ends(r1))
    BY <1>5, <1>7, RideExists
  <1>9. /\ r2.id = id /\ r2.day = day /\ r2.from = no /\ r2.to = to
        /\ Ends(r2) = trains[id].stations[to]
        /\ Departure(r2) = GetLeaveTime(id, day, no)
        /\ Arrival(r2) = GetArriveTime(id, day, to)
        /\ Departure(r2) \in Nat /\ Arrival(r2) \in Nat
        /\ Cost(r2) = GetPrice(id, no, to) /\ Cost(r2) \in Int
        /\ Departure(r2) = LeavesAt(id, day, no)
    BY <1>2, <1>4, <1>5, <1>6, <1>7, RideTimes
  <1>10. <<r1, r2>> \in Itineraries(s, e, d)
    BY <1>4, <1>5, <1>6, <1>8, <1>9, ItineraryParts DEF Connects
  <1>11. /\ first.at = Ends(r1) /\ first.id = r1.id /\ first.arrive_time = Arrival(r1)
         /\ first.depart_time = Departure(r1) /\ first.cost = Cost(r1)
    BY DEF FirstOf
  <1>12. Feeds(first, id, no)
    BY <1>11 DEF Feeds
  <1> DEFINE t == <<r1, r2>>
             time == Arrival(r2) - Departure(r1)
             cost == Cost(r1) + Cost(r2)
  <1>13. t[1] = r1 /\ t[2] = r2
    OBVIOUS
  <1>14. /\ ItineraryKey(t, by_cost)[1] = (IF by_cost THEN cost ELSE time)
         /\ ItineraryKey(t, by_cost)[2] = (IF by_cost THEN time ELSE cost)
    BY <1>13 DEF ItineraryKey, ByCost
  <1>15. DivC(GetLeaveTime(id, day, no), 1440) = Departure(r2) \div 1440
    BY <1>9 DEF DivC
  <1>16. Option(first, id, no, to, by_cost) =
           [first_key |-> IF by_cost THEN cost ELSE time,
            second_key |-> IF by_cost THEN time ELSE cost,
            ids |-> <<r1.id, id>>, at |-> Ends(r1),
            second_date |-> Departure(r2) \div 1440]
    <2>1. SecondDepartDate(id, no, first.arrive_time) = day
      BY <1>11
    <2>2. /\ GetArriveTime(id, day, to) - first.depart_time = time
          /\ first.cost + GetPrice(id, no, to) = cost
      BY <1>9, <1>11
    <2> HIDE DEF time, cost
    <2>3. Option(first, id, no, to, by_cost) =
            [first_key |-> IF by_cost THEN cost ELSE time,
             second_key |-> IF by_cost THEN time ELSE cost,
             ids |-> <<first.id, id>>, at |-> first.at,
             second_date |-> DivC(GetLeaveTime(id, day, no), 1440)]
      BY <2>1, <2>2 DEF Option
    <2> QED
      BY <1>11, <1>15, <2>3
  <1> HIDE DEF t, time, cost
  <1>17. Option(first, id, no, to, by_cost) = OptionOf(t, by_cost)
    BY <1>9, <1>13, <1>14, <1>16 DEF OptionOf
  <1> QED
    BY <1>10, <1>12, <1>17 DEF t
NoWorse(t, u, by_cost) == ~LexLess(ItineraryKey(u, by_cost), ItineraryKey(t, by_cost))

LEMMA EarlierIsNoWorse ==
  ASSUME NEW t, NEW u, NEW by_cost \in BOOLEAN,
         NEW time \in Int, NEW later \in Int, NEW cost \in Int,
         time = Arrival(t[2]) - Departure(t[1]), cost = Cost(t[1]) + Cost(t[2]),
         later = Arrival(u[2]) - Departure(u[1]), cost = Cost(u[1]) + Cost(u[2]),
         time <= later
  PROVE  NoWorse(t, u, by_cost)
  <1>1. CASE by_cost
    <2>1. ItineraryKey(t, by_cost) = <<cost, time>> /\ ItineraryKey(u, by_cost) = <<cost, later>>
      BY <1>1 DEF ItineraryKey, ByCost
    <2> QED
      BY <2>1 DEF NoWorse, LexLess
  <1>2. CASE ~by_cost
    <2>1. ItineraryKey(t, by_cost) = <<time, cost>> /\ ItineraryKey(u, by_cost) = <<later, cost>>
      BY <1>2 DEF ItineraryKey, ByCost
    <2> QED
      BY <2>1 DEF NoWorse, LexLess
  <1> QED
    BY <1>1, <1>2

(* When a ride arrives and what it costs.                                  *)
LEMMA RideWorth ==
  ASSUME NEW id \in released, Regular(id), NEW day \in Int, NEW from \in StationNos(id),
         NEW to \in StationNos(id), from < to
  PROVE  /\ Arrival(Ride(id, day, from, to)) = ArrivesAt(id, day, to)
         /\ Arrival(Ride(id, day, from, to)) \in Int
         /\ Cost(Ride(id, day, from, to)) = GetPrice(id, from, to)
         /\ Cost(Ride(id, day, from, to)) \in Int
  <1>1. PICK r : r = Ride(id, day, from, to)
    OBVIOUS
  <1>2. r.id = id /\ r.day = day /\ r.from = from /\ r.to = to
    BY <1>1 DEF Ride
  <1>3. from # LastStation(id) /\ to # 0
    BY StationsCount
  <1>4. Arrival(r) = ArrivesAt(id, day, to)
    BY <1>2 DEF Arrival
  <1>5. ArrivesAt(id, day, to) \in Int
    BY <1>3, ArriveTimeShown
  <1>6. Cost(r) = GetPrice(id, from, to)
    BY <1>2 DEF Cost, GetPrice
  <1>7. GetPrice(id, from, to) \in Int
    <2>1. trains[id].price[from] \in Int /\ trains[id].price[to] \in Int
      BY DEF Regular
    <2> QED
      BY <2>1 DEF GetPrice
  <1> QED
    BY <1>1, <1>4, <1>5, <1>6, <1>7

(* The change into train id at station no that stands for a longer wait.   *)
LEMMA WaitsNoLonger ==
  ASSUME ProperTimetables, QueriesInv, NEW s, NEW e, NEW d, IsDate(d),
         NEW u \in Itineraries(s, e, d), NEW id, NEW no, NEW to,
         u[2].id = id, u[2].from = no, e \in StationsOf(id), to = GetStationNo(id, e),
         NEW day, day = SecondDepartDate(id, no, Arrival(u[1])),
         NEW t, t = <<u[1], Ride(id, day, no, to)>>, NEW by_cost \in BOOLEAN
  PROVE  /\ id \in released /\ no \in 0 .. to - 1 /\ u[1].id # id
         /\ trains[id].stations[no] = Ends(u[1])
         /\ day <= trains[id].date_end
         /\ NoWorse(t, u, by_cost)
  <1>1. PICK r1, r : r1 = u[1] /\ r = u[2]
    OBVIOUS
  <1>2. /\ r1 \in RidesOn(s, d) /\ r \in Rides(Ends(r1)) /\ Ends(r) = e
        /\ r.id # r1.id /\ r.from < r.to /\ Departure(r) >= Arrival(r1)
    BY <1>1, ItineraryParts DEF Connects
  <1>3. \A i \in released : Regular(i)
    BY WhatQueriesSee
  <1>4. r1 \in Rides(s) /\ r1.from < r1.to
    BY <1>2 DEF RidesOn
  <1>5. Arrival(r1) \in Nat /\ Departure(r1) \in Nat /\ Cost(r1) \in Int
    BY <1>3, <1>4, RideFacts
  <1>6. r.id = id /\ r.from = no
    BY <1>1
  <1>7. /\ r = Ride(id, r.day, no, r.to) /\ id \in released /\ Regular(id)
        /\ r.day \in trains[id].date_beg .. trains[id].date_end /\ r.day \in Nat
        /\ no \in StationNos(id) /\ r.to \in StationNos(id)
        /\ trains[id].stations[no] = Ends(r1) /\ no # LastStation(id)
        /\ no < r.to /\ no \in 0 .. LastStation(id)
    BY <1>2, <1>3, <1>6, RideFacts
  <1>8. Ends(r) = trains[id].stations[r.to]
    BY <1>6 DEF Ends
  <1>9. r.to = to
    BY <1>2, <1>7, <1>8, NumberOfStation
  <1>10. /\ trains[id].date_beg \in Nat /\ trains[id].date_end \in Nat
         /\ no \in Nat /\ to \in Nat
    BY <1>7, <1>9, StationsCount
  <1>11. no \in 0 .. to - 1 /\ no < to /\ to \in StationNos(id)
    BY <1>7, <1>9, <1>10
  <1>12. /\ day \in Int /\ day >= trains[id].date_beg
         /\ \A other \in Int :
              other >= trains[id].date_beg /\ LeavesAt(id, other, no) >= Arrival(r1) =>
                day <= other
    BY <1>1, <1>5, <1>7, FirstSuitableDay
  <1>13. Departure(r) = LeavesAt(id, r.day, no)
    BY <1>6 DEF Departure
  <1>14. day <= r.day /\ day <= trains[id].date_end
    BY <1>2, <1>7, <1>10, <1>12, <1>13
  <1>15. PICK r2 : r2 = Ride(id, day, no, to)
    OBVIOUS
  <1>16. /\ Arrival(r2) = ArrivesAt(id, day, to) /\ Arrival(r2) \in Int
         /\ Cost(r2) = GetPrice(id, no, to)
    <2>1. /\ id \in released /\ Regular(id) /\ day \in Int /\ no \in StationNos(id)
          /\ to \in StationNos(id) /\ no < to /\ r2 = Ride(id, day, no, to)
      BY <1>7, <1>11, <1>12, <1>15
    <2> QED
      BY <2>1, RideTimes
  <1>17. /\ Arrival(r) = ArrivesAt(id, r.day, to) /\ Arrival(r) \in Int
         /\ Cost(r) = GetPrice(id, no, to) /\ Cost(r) \in Int
    <2>1. PICK later : later = r.day
      OBVIOUS
    <2>2. /\ id \in released /\ Regular(id) /\ later \in Int /\ no \in StationNos(id)
          /\ to \in StationNos(id) /\ no < to /\ r = Ride(id, later, no, to)
      BY <1>7, <1>9, <1>11, <2>1
    <2>3. /\ Arrival(Ride(id, later, no, to)) = ArrivesAt(id, later, to)
          /\ Arrival(Ride(id, later, no, to)) \in Int
          /\ Cost(Ride(id, later, no, to)) = GetPrice(id, no, to)
          /\ Cost(Ride(id, later, no, to)) \in Int
      BY <2>2, RideWorth
    <2> QED
      BY <2>1, <2>2, <2>3
  <1>18. Arrival(r2) <= Arrival(r)
    <2>1. PICK a, b : a = trains[id].depart_time /\ b = trains[id].arrive_time[to]
      OBVIOUS
    <2>2. a \in Int /\ b \in Int
      <3>1. to # 0
        BY <1>10, <1>11
      <3> QED
        <4>1. Regular(id) /\ to \in StationNos(id) \ {0}
          BY <1>7, <1>11, <3>1
        <4>2. a \in 0 .. 1439 /\ b \in 0 .. Limit - 1
          BY <4>1, <2>1 DEF Regular
        <4> QED
          BY <4>2, LimitHalves
    <2>3. ArrivesAt(id, day, to) = day * 1440 + a + b
          /\ ArrivesAt(id, r.day, to) = r.day * 1440 + a + b
      BY <2>1 DEF ArrivesAt
    <2> QED
      BY <1>7, <1>12, <1>14, <1>16, <1>17, <2>2, <2>3
  <1>19. NoWorse(t, u, by_cost)
    <2>1. t[1] = r1 /\ t[2] = r2
      BY <1>1, <1>15
    <2>2. PICK time, later, cost :
            /\ time = Arrival(r2) - Departure(r1) /\ later = Arrival(r) - Departure(r1)
            /\ cost = Cost(r1) + Cost(r2)
      OBVIOUS
    <2>3. /\ time \in Int /\ later \in Int /\ cost \in Int /\ time <= later
          /\ cost = Cost(r1) + Cost(r)
      BY <1>5, <1>16, <1>17, <1>18, <2>2
    <2> QED
      BY <1>1, <2>1, <2>2, <2>3, EarlierIsNoWorse
  <1> QED
    BY <1>1, <1>2, <1>6, <1>7, <1>11, <1>14, <1>19
Changes(s, e, d, by_cost) == {OptionOf(t, by_cost) : t \in Itineraries(s, e, d)}

(* The options, and no worse one for every itinerary of the set U.         *)
Serve(list, U, s, e, d, by_cost) ==
  /\ list \in Seq(Changes(s, e, d, by_cost))
  /\ \A u \in U : \E t \in Itineraries(s, e, d) :
       Has(list, OptionOf(t, by_cost)) /\ NoWorse(t, u, by_cost)

(* Lists that serve their parts, put end to end, serve all.                *)
LEMMA ServedTogether ==
  ASSUME NEW n \in Nat, NEW seqs, seqs = [i \in 1 .. n |-> seqs[i]], NEW U,
         NEW s, NEW e, NEW d, NEW by_cost \in BOOLEAN,
         \A i \in 1 .. n : seqs[i] \in Seq(Changes(s, e, d, by_cost)),
         \A u \in U : \E i \in 1 .. n : \E t \in Itineraries(s, e, d) :
           Has(seqs[i], OptionOf(t, by_cost)) /\ NoWorse(t, u, by_cost)
  PROVE  Serve(Seqs!FlattenSeq(seqs), U, s, e, d, by_cost)
  <1>1. PICK E : E = Changes(s, e, d, by_cost)
    OBVIOUS
  <1>2. seqs \in [1 .. n -> Seq(E)]
    BY <1>1
  <1>3. /\ Seqs!FlattenSeq(seqs) \in Seq(E)
        /\ \A x : Has(Seqs!FlattenSeq(seqs), x) <=> InSome(x, seqs, n)
    BY <1>2, FlattenIsAll
  <1>4. ASSUME NEW u \in U
        PROVE  \E t \in Itineraries(s, e, d) :
                 Has(Seqs!FlattenSeq(seqs), OptionOf(t, by_cost)) /\ NoWorse(t, u, by_cost)
    <2>1. PICK i \in 1 .. n : \E t \in Itineraries(s, e, d) :
            Has(seqs[i], OptionOf(t, by_cost)) /\ NoWorse(t, u, by_cost)
      OBVIOUS
    <2>2. PICK t \in Itineraries(s, e, d) :
            Has(seqs[i], OptionOf(t, by_cost)) /\ NoWorse(t, u, by_cost)
      BY <2>1
    <2>3. InSome(OptionOf(t, by_cost), seqs, n)
      BY <2>2 DEF InSome
    <2> QED
      BY <1>3, <2>2, <2>3
  <1> QED
    BY <1>1, <1>3, <1>4 DEF Serve

OptionsAt(firsts, id, no, to, by_cost) ==
  Seqs!FlattenSeq(
    [j \in DOMAIN firsts |->
       IF Feeds(firsts[j], id, no) THEN << Option(firsts[j], id, no, to, by_cost) >>
       ELSE << >>])

LEMMA OptionsAtStation ==
  ASSUME ProperTimetables, QueriesInv, NEW s, NEW e, NEW d, IsDate(d),
         NEW firsts \in Seq(Firsts(s, d)),
         \A r \in RidesOn(s, d) : Has(firsts, FirstOf(r)),
         NEW id \in released, e \in StationsOf(id), NEW to, to = GetStationNo(id, e),
         NEW no \in 0 .. to - 1, NEW by_cost \in BOOLEAN,
         NEW U, U = {u \in Itineraries(s, e, d) : u[2].id = id /\ u[2].from = no}
  PROVE  Serve(OptionsAt(firsts, id, no, to, by_cost), U, s, e, d, by_cost)
  <1>1. PICK n : n = Len(firsts)
    OBVIOUS
  <1>2. n \in Nat /\ DOMAIN firsts = 1 .. n
    BY <1>1
  <1> DEFINE opt(j) == IF Feeds(firsts[j], id, no)
                       THEN << Option(firsts[j], id, no, to, by_cost) >> ELSE << >>
             seqs == [j \in 1 .. n |-> opt(j)]
             E == Changes(s, e, d, by_cost)
  <1>3. OptionsAt(firsts, id, no, to, by_cost) = Seqs!FlattenSeq(seqs)
    BY <1>2 DEF OptionsAt
  <1>4. ASSUME NEW j \in 1 .. n, Feeds(firsts[j], id, no)
        PROVE  Option(firsts[j], id, no, to, by_cost) \in E
    <2>1. PICK r1 \in RidesOn(s, d) : firsts[j] = FirstOf(r1)
      BY <1>2 DEF Firsts
    <2>2. PICK first, day, r2 : /\ first = firsts[j] /\ first = FirstOf(r1)
                                /\ day = SecondDepartDate(id, no, Arrival(r1))
                                /\ r2 = Ride(id, day, no, to)
      BY <2>1
    <2>3. first.at = Ends(r1) /\ first.id = r1.id /\ first.arrive_time = Arrival(r1)
      BY <2>2 DEF FirstOf
    <2>4. /\ trains[id].stations[no] = Ends(r1) /\ r1.id # id
          /\ day <= trains[id].date_end
      BY <1>4, <2>2, <2>3 DEF Feeds
    <2>5. /\ <<r1, r2>> \in Itineraries(s, e, d)
          /\ Option(first, id, no, to, by_cost) = OptionOf(<<r1, r2>>, by_cost)
      BY <2>2, <2>4, ChangeIsOption
    <2> QED
      BY <2>2, <2>5 DEF Changes
  <1>5. \A j \in 1 .. n : seqs[j] \in Seq(E)
    <2> SUFFICES ASSUME NEW j \in 1 .. n PROVE opt(j) \in Seq(E)
      OBVIOUS
    <2> HIDE DEF E
    <2>1. CASE Feeds(firsts[j], id, no)
      <3>1. PICK x \in E : x = Option(firsts[j], id, no, to, by_cost)
        BY <1>4, <2>1
      <3>2. opt(j) = <<x>>
        BY <2>1, <3>1
      <3> QED
        BY <3>2
    <2>2. CASE ~Feeds(firsts[j], id, no)
      BY <2>2
    <2> QED
      BY <2>1, <2>2
  <1>6. ASSUME NEW u \in U
        PROVE  \E i \in 1 .. n : \E t \in Itineraries(s, e, d) :
                 Has(seqs[i], OptionOf(t, by_cost)) /\ NoWorse(t, u, by_cost)
    <2>1. u \in Itineraries(s, e, d) /\ u[2].id = id /\ u[2].from = no
      OBVIOUS
    <2>2. PICK r1, day, r2 : /\ r1 = u[1] /\ day = SecondDepartDate(id, no, Arrival(u[1]))
                             /\ r2 = Ride(id, day, no, to)
      OBVIOUS
    <2>3. /\ r1.id # id /\ trains[id].stations[no] = Ends(r1)
          /\ day <= trains[id].date_end
          /\ NoWorse(<<r1, r2>>, u, by_cost)
      BY <2>1, <2>2, WaitsNoLonger
    <2>4. r1 \in RidesOn(s, d)
      BY <2>1, <2>2, ItineraryParts
    <2>5. PICK j \in 1 .. n : firsts[j] = FirstOf(r1)
      BY <1>2, <2>4 DEF Has
    <2>6. PICK first : first = firsts[j] /\ first = FirstOf(r1)
      BY <2>5
    <2>7. /\ Feeds(first, id, no)
          /\ <<r1, r2>> \in Itineraries(s, e, d)
          /\ Option(first, id, no, to, by_cost) = OptionOf(<<r1, r2>>, by_cost)
      BY <2>2, <2>3, <2>4, <2>6, ChangeIsOption
    <2>8. seqs[j] = << OptionOf(<<r1, r2>>, by_cost) >>
      BY <2>6, <2>7
    <2>9. Has(seqs[j], OptionOf(<<r1, r2>>, by_cost))
      <3> HIDE DEF seqs
      <3> QED
        BY <2>8 DEF Has
    <2> HIDE DEF seqs
    <2> QED
      BY <2>3, <2>7, <2>9
  <1>7. seqs = [i \in 1 .. n |-> seqs[i]]
    OBVIOUS
  <1> HIDE DEF seqs
  <1> QED
    BY <1>2, <1>3, <1>5, <1>6, <1>7, ServedTogether

(* The ways to change into train id.                                       *)
LEMMA OptionsWithTrain ==
  ASSUME ProperTimetables, QueriesInv, NEW s, NEW e, NEW d, IsDate(d),
         NEW firsts \in Seq(Firsts(s, d)),
         \A r \in RidesOn(s, d) : Has(firsts, FirstOf(r)),
         NEW id \in released, e \in StationsOf(id), NEW to, to = GetStationNo(id, e),
         NEW by_cost \in BOOLEAN,
         NEW U, U = {u \in Itineraries(s, e, d) : u[2].id = id}
  PROVE  Serve(OptionsWith(firsts, id, to, by_cost), U, s, e, d, by_cost)
  <1>1. to \in Nat
    <2>1. Regular(id)
      BY WhatQueriesSee
    <2>2. to \in StationNos(id)
      BY <2>1, StationOfNumber
    <2> QED
      BY <2>1, <2>2, StationsCount
  <1> DEFINE seqs == [k \in 1 .. to |-> OptionsAt(firsts, id, to - k, to, by_cost)]
             at(no) == {u \in Itineraries(s, e, d) : u[2].id = id /\ u[2].from = no}
  <1>2. OptionsWith(firsts, id, to, by_cost) = Seqs!FlattenSeq(seqs)
    BY DEF OptionsWith, OptionsAt
  <1>3. ASSUME NEW no \in 0 .. to - 1
        PROVE  Serve(OptionsAt(firsts, id, no, to, by_cost), at(no), s, e, d, by_cost)
    <2>1. PICK V : V = at(no)
      OBVIOUS
    <2>2. V = {u \in Itineraries(s, e, d) : u[2].id = id /\ u[2].from = no}
      BY <2>1
    <2>3. Serve(OptionsAt(firsts, id, no, to, by_cost), V, s, e, d, by_cost)
      BY <2>2, OptionsAtStation
    <2> QED
      BY <2>1, <2>3
  <1>4. \A k \in 1 .. to : seqs[k] \in Seq(Changes(s, e, d, by_cost))
    <2> SUFFICES ASSUME NEW k \in 1 .. to
                 PROVE  seqs[k] \in Seq(Changes(s, e, d, by_cost))
      OBVIOUS
    <2>1. PICK no \in 0 .. to - 1 : no = to - k
      BY <1>1
    <2>2. seqs[k] = OptionsAt(firsts, id, no, to, by_cost)
      BY <2>1
    <2> HIDE DEF seqs, at
    <2> QED
      BY <1>3, <2>2 DEF Serve
  <1>5. ASSUME NEW u \in U
        PROVE  \E k \in 1 .. to : \E t \in Itineraries(s, e, d) :
                 Has(seqs[k], OptionOf(t, by_cost)) /\ NoWorse(t, u, by_cost)
    <2>1. PICK no, day : /\ no = u[2].from /\ day = SecondDepartDate(id, no, Arrival(u[1]))
      OBVIOUS
    <2>2. PICK t : t = <<u[1], Ride(id, day, no, to)>>
      OBVIOUS
    <2>3. u \in Itineraries(s, e, d) /\ u[2].id = id
      OBVIOUS
    <2>4. no \in 0 .. to - 1
      BY <2>1, <2>2, <2>3, WaitsNoLonger
    <2>5. u \in at(no)
      BY <2>1, <2>3
    <2>6. PICK k \in 1 .. to : no = to - k
      BY <1>1, <2>4
    <2>7. seqs[k] = OptionsAt(firsts, id, no, to, by_cost)
      BY <2>6
    <2> HIDE DEF seqs, at
    <2>8. PICK x \in Itineraries(s, e, d) :
            /\ Has(OptionsAt(firsts, id, no, to, by_cost), OptionOf(x, by_cost))
            /\ NoWorse(x, u, by_cost)
      BY <1>3, <2>4, <2>5 DEF Serve
    <2> QED
      BY <2>7, <2>8
  <1>6. seqs = [k \in 1 .. to |-> seqs[k]]
    OBVIOUS
  <1> HIDE DEF seqs, at
  <1>7. Serve(Seqs!FlattenSeq(seqs), U, s, e, d, by_cost)
    <2>1. PICK V, n : V = U /\ n = to
      OBVIOUS
    <2>2. n \in Nat /\ seqs = [k \in 1 .. n |-> seqs[k]]
      BY <1>1, <1>6, <2>1
    <2>3. \A k \in 1 .. n : seqs[k] \in Seq(Changes(s, e, d, by_cost))
      BY <1>4, <2>1
    <2>4. \A u \in V : \E k \in 1 .. n : \E t \in Itineraries(s, e, d) :
            Has(seqs[k], OptionOf(t, by_cost)) /\ NoWorse(t, u, by_cost)
      BY <1>5, <2>1
    <2>5. Serve(Seqs!FlattenSeq(seqs), V, s, e, d, by_cost)
      BY <2>2, <2>3, <2>4, ServedTogether
    <2> QED
      BY <2>1, <2>5
  <1> QED
    BY <1>2, <1>7

(* All the options: each is an itinerary, and none is missed for a better. *)
LEMMA OptionsServe ==
  ASSUME ProperTimetables, QueriesInv, NEW s \in QueryStations,
         NEW e \in QueryStations, NEW d, IsDate(d), NEW by_cost \in BOOLEAN
  PROVE  Serve(Options(s, e, ParseDate(d), by_cost), Itineraries(s, e, d),
               s, e, d, by_cost)
  <1>1. PICK firsts, there : /\ firsts = FirstTrains(s, ParseDate(d))
                             /\ there = TrainsAt(e)
    OBVIOUS
  <1>2. /\ firsts \in Seq(Firsts(s, d))
        /\ \A r \in RidesOn(s, d) : Has(firsts, FirstOf(r))
    BY <1>1, FirstTrainsExact
  <1>3. /\ there \in Seq(released)
        /\ \A i \in DOMAIN there : e \in StationsOf(there[i])
        /\ \A id \in released : e \in StationsOf(id) => Has(there, id)
    BY <1>1, TrainsAtServed
  <1>4. PICK n \in Nat : n = Len(there)
    BY <1>3
  <1>5. DOMAIN there = 1 .. n
    BY <1>3, <1>4
  <1> DEFINE seqs == [i \in 1 .. n |->
                        OptionsWith(firsts, there[i], GetStationNo(there[i], e), by_cost)]
             into(id) == {u \in Itineraries(s, e, d) : u[2].id = id}
  <1>6. Options(s, e, ParseDate(d), by_cost) = Seqs!FlattenSeq(seqs)
    BY <1>1, <1>5 DEF Options
  <1>7. ASSUME NEW id \in released, e \in StationsOf(id)
        PROVE  Serve(OptionsWith(firsts, id, GetStationNo(id, e), by_cost), into(id),
                     s, e, d, by_cost)
    <2>1. PICK V, to : V = into(id) /\ to = GetStationNo(id, e)
      OBVIOUS
    <2>2. V = {u \in Itineraries(s, e, d) : u[2].id = id}
      BY <2>1
    <2>3. Serve(OptionsWith(firsts, id, to, by_cost), V, s, e, d, by_cost)
      BY <1>2, <1>7, <2>1, <2>2, OptionsWithTrain
    <2> QED
      BY <2>1, <2>3
  <1>8. \A i \in 1 .. n : seqs[i] \in Seq(Changes(s, e, d, by_cost))
    <2> SUFFICES ASSUME NEW i \in 1 .. n
                 PROVE  seqs[i] \in Seq(Changes(s, e, d, by_cost))
      OBVIOUS
    <2>1. PICK id \in released : id = there[i] /\ e \in StationsOf(id)
      BY <1>3, <1>5
    <2>2. seqs[i] = OptionsWith(firsts, id, GetStationNo(id, e), by_cost)
      BY <2>1
    <2> HIDE DEF seqs, into
    <2> QED
      BY <1>7, <2>1, <2>2 DEF Serve
  <1>9. ASSUME NEW u \in Itineraries(s, e, d)
        PROVE  \E i \in 1 .. n : \E t \in Itineraries(s, e, d) :
                 Has(seqs[i], OptionOf(t, by_cost)) /\ NoWorse(t, u, by_cost)
    <2>1. PICK r1, r : r1 = u[1] /\ r = u[2]
      OBVIOUS
    <2>2. r \in Rides(Ends(r1)) /\ Ends(r) = e /\ r.from < r.to
      BY <2>1, ItineraryParts DEF Connects
    <2>3. \A i \in released : Regular(i)
      BY WhatQueriesSee
    <2>4. PICK id : id = r.id
      OBVIOUS
    <2>5. id \in released /\ Regular(id) /\ r.to \in StationNos(id)
      BY <2>2, <2>3, <2>4, RideFacts
    <2>6. trains[id].stations[r.to] = e
      BY <2>2, <2>4 DEF Ends
    <2>7. e \in StationsOf(id)
      BY <2>5, <2>6, NumberOfStation
    <2>8. PICK i \in 1 .. n : there[i] = id
      BY <1>3, <1>5, <2>5, <2>7 DEF Has
    <2>9. u \in into(id)
      BY <2>1, <2>4
    <2>10. seqs[i] = OptionsWith(firsts, id, GetStationNo(id, e), by_cost)
      BY <2>8
    <2> HIDE DEF seqs, into
    <2>11. PICK x \in Itineraries(s, e, d) :
            /\ Has(OptionsWith(firsts, id, GetStationNo(id, e), by_cost),
                   OptionOf(x, by_cost))
            /\ NoWorse(x, u, by_cost)
      BY <1>7, <2>5, <2>7, <2>9 DEF Serve
    <2> QED
      BY <2>10, <2>11
  <1>10. seqs = [i \in 1 .. n |-> seqs[i]]
    OBVIOUS
  <1> HIDE DEF seqs, into
  <1> QED
    BY <1>6, <1>8, <1>9, <1>10, ServedTogether
-----------------------------------------------------------------------------
(* The best option: no option has smaller keys.                            *)
OptionLess(x, y) ==
  \/ x.first_key < y.first_key
  \/ x.first_key = y.first_key /\ x.second_key < y.second_key

Leading(best, options, k) ==
  IF k = 0 THEN best = << >>
  ELSE \E j \in 1 .. k : /\ best = << options[j] >>
                         /\ \A i \in 1 .. k : ~OptionLess(options[i], options[j])

Keyed(options) ==
  \A i \in DOMAIN options : options[i].first_key \in Int /\ options[i].second_key \in Int

LEMMA ConsiderLeads ==
  ASSUME NEW options, NEW n \in Nat, DOMAIN options = 1 .. n, Keyed(options),
         NEW k \in 1 .. n, NEW best, Leading(best, options, k - 1)
  PROVE  Leading(Consider(best, options[k]), options, k)
  <1>1. \A i \in 1 .. n : options[i].first_key \in Int /\ options[i].second_key \in Int
    BY DEF Keyed
  <1>2. CASE k = 1
    <2>1. best = << >>
      BY <1>2 DEF Leading
    <2>2. Consider(best, options[k]) = << options[k] >>
      BY <2>1 DEF Consider
    <2>3. ~OptionLess(options[1], options[1])
      BY <1>1, <1>2 DEF OptionLess
    <2> QED
      BY <1>2, <2>2, <2>3 DEF Leading
  <1>3. CASE k # 1
    <2>1. k - 1 \in 1 .. n /\ k - 1 # 0
      BY <1>3
    <2>2. PICK j \in 1 .. k - 1 :
            /\ best = << options[j] >>
            /\ \A i \in 1 .. k - 1 : ~OptionLess(options[i], options[j])
      BY <2>1 DEF Leading
    <2>3. PICK x, y : x = options[j] /\ y = options[k]
      OBVIOUS
    <2>4. j \in 1 .. n /\ j \in 1 .. k /\ k \in 1 .. k
      BY <2>2
    <2>5. /\ x.first_key \in Int /\ x.second_key \in Int
          /\ y.first_key \in Int /\ y.second_key \in Int
      BY <1>1, <2>3, <2>4
    <2>6. best # << >> /\ best[1] = x
      BY <2>2, <2>3
    <2>7. CASE OptionLess(y, x)
      <3>1. Consider(best, y) = << y >>
        BY <2>5, <2>6, <2>7 DEF Consider, OptionLess
      <3>2. \A i \in 1 .. k : ~OptionLess(options[i], y)
        <4> SUFFICES ASSUME NEW i \in 1 .. k PROVE ~OptionLess(options[i], y)
          OBVIOUS
        <4>1. PICK z : z = options[i]
          OBVIOUS
        <4>2. z.first_key \in Int /\ z.second_key \in Int
          BY <1>1, <4>1
        <4>3. CASE i = k
          BY <2>3, <2>5, <4>1, <4>3 DEF OptionLess
        <4>4. CASE i # k
          <5>1. ~OptionLess(z, x)
            BY <2>2, <2>3, <4>1, <4>4
          <5> QED
            BY <2>5, <2>7, <4>1, <4>2, <5>1 DEF OptionLess
        <4> QED
          BY <4>3, <4>4
      <3> QED
        BY <2>3, <2>4, <3>1, <3>2 DEF Leading
    <2>8. CASE ~OptionLess(y, x)
      <3>1. Consider(best, y) = best
        BY <2>5, <2>6, <2>8 DEF Consider, OptionLess
      <3>2. \A i \in 1 .. k : ~OptionLess(options[i], x)
        BY <2>2, <2>3, <2>8
      <3>3. best = << options[j] >>
        BY <2>2
      <3> QED
        BY <2>3, <2>4, <3>1, <3>2, <3>3 DEF Leading
    <2> QED
      BY <2>7, <2>8
  <1> QED
    BY <1>2, <1>3

LEMMA BestLeads ==
  ASSUME NEW s, NEW e, NEW date, NEW by_cost, NEW G,
         Options(s, e, date, by_cost) \in Seq(G), Keyed(Options(s, e, date, by_cost))
  PROVE  Leading(Best(s, e, date, by_cost), Options(s, e, date, by_cost),
                 Len(Options(s, e, date, by_cost)))
  <1>1. PICK options, n : options = Options(s, e, date, by_cost) /\ n = Len(options)
    OBVIOUS
  <1>2. n \in Nat /\ DOMAIN options = 1 .. n /\ \A k \in 1 .. n : options[k] \in G
    BY <1>1
  <1>3. Keyed(options)
    BY <1>1
  <1> DEFINE E == {<< >>} \cup {<<o>> : o \in G}
             step == [x \in E \X (1 .. n) |-> Consider(x[1], options[x[2]])]
             Body(f) == [k \in 0 .. Len(options) |->
                           IF k = 0 THEN << >> ELSE Consider(f[k - 1], options[k])]
  <1>4. << >> \in E
    OBVIOUS
  <1>5. step \in [E \X (1 .. n) -> E]
    <2>1. ASSUME NEW b \in E, NEW k \in 1 .. n
          PROVE  Consider(b, options[k]) \in E
      <3>1. options[k] \in G
        BY <1>2
      <3>2. << options[k] >> \in E
        BY <3>1
      <3>3. Consider(b, options[k]) = b \/ Consider(b, options[k]) = << options[k] >>
        BY DEF Consider
      <3> QED
        BY <3>2, <3>3
    <2> QED
      BY <2>1
  <1> HIDE DEF E
  <1>6. PICK f \in [0 .. n -> E] : Turns(f, << >>, step, n)
    <2> HIDE DEF step
    <2> QED
      BY <1>2, <1>4, <1>5, LoopExists
  <1>7. ASSUME NEW k \in 1 .. n
        PROVE  f[k] = Consider(f[k - 1], options[k])
    <2>1. k - 1 \in 0 .. n
      BY <1>2
    <2>2. f[k - 1] \in E
      BY <2>1
    <2>3. f[k] = step[<<f[k - 1], k>>]
      BY <1>6 DEF Turns
    <2> QED
      BY <2>2, <2>3
  <1> HIDE DEF step
  <1>8. f = Body(f)
    <2>1. f[0] = << >>
      BY <1>6 DEF Turns
    <2>2. \A k \in 0 .. n : f[k] = Body(f)[k]
      <3> SUFFICES ASSUME NEW k \in 0 .. n PROVE f[k] = Body(f)[k]
        OBVIOUS
      <3>1. CASE k = 0
        BY <2>1, <3>1, <1>1
      <3>2. CASE k # 0
        <4>1. k \in 1 .. n
          BY <3>2, <1>2
        <4>2. f[k] = Consider(f[k - 1], options[k])
          BY <4>1, <1>7
        <4> QED
          BY <3>2, <4>2, <1>1
      <3> QED
        BY <3>1, <3>2
    <2> HIDE DEF Body
    <2>4. Body(f) = [k \in 0 .. n |-> Body(f)[k]]
      BY <1>1 DEF Body
    <2> QED
      BY <2>2, <2>4
  <1>9. Best(s, e, date, by_cost) = (CHOOSE g : g = Body(g))[n]
    BY <1>1 DEF Best
  <1> DEFINE g == CHOOSE h : h = Body(h)
  <1>10. g = Body(g)
    <2> HIDE DEF Body
    <2> QED
      BY <1>8
  <1> HIDE DEF g
  <1> DEFINE Leads(k) == Leading(g[k], options, k)
             S == {k \in 0 .. n : Leads(k)}
  <1>11. 0 \in S
    <2>1. g[0] = << >>
      BY <1>10, <1>1, <1>2
    <2> QED
      BY <1>2, <2>1 DEF Leading
  <1>12. ASSUME NEW k \in 1 .. n, k - 1 \in S
         PROVE  k \in S
    <2>1. Leading(g[k - 1], options, k - 1)
      BY <1>12
    <2>2. g[k] = Consider(g[k - 1], options[k])
      <3>1. k # 0 /\ k \in 0 .. Len(options)
        BY <1>1, <1>2
      <3> QED
        BY <3>1, <1>10, Zenon
    <2>3. Leading(Consider(g[k - 1], options[k]), options, k)
      BY <1>2, <1>3, <2>1, ConsiderLeads
    <2> QED
      BY <1>2, <2>2, <2>3
  <1>13. 0 .. n \subseteq S
    <2> HIDE DEF S
    <2> QED
      BY <1>2, <1>11, <1>12, EveryTurn
  <1>14. Leading(g[n], options, n)
    <2>1. n \in S
      BY <1>2, <1>13
    <2> QED
      BY <2>1
  <1> QED
    BY <1>1, <1>9, <1>14 DEF g

LEMMA KeysOfItinerary ==
  ASSUME ProperTimetables, QueriesInv, NEW s, NEW e, NEW d,
         NEW t \in Itineraries(s, e, d), NEW by_cost \in BOOLEAN
  PROVE  /\ ItineraryKey(t, by_cost)[1] \in Int /\ ItineraryKey(t, by_cost)[2] \in Int
         /\ t[1] \in Rides(s) /\ t[1].from < t[1].to
         /\ t[2] \in Rides(Ends(t[1])) /\ t[2].from < t[2].to
         /\ Departure(t[2]) \in Int
  <1>1. PICK r1, r2 : r1 = t[1] /\ r2 = t[2]
    OBVIOUS
  <1>2. /\ r1 \in Rides(s) /\ r1.from < r1.to
        /\ r2 \in Rides(Ends(r1)) /\ r2.from < r2.to
    BY <1>1, ItineraryParts DEF Connects, RidesOn
  <1>3. \A id \in released : Regular(id)
    BY WhatQueriesSee
  <1>4. Departure(r1) \in Nat /\ Cost(r1) \in Int
    BY <1>2, <1>3, RideFacts
  <1>5. Departure(r2) \in Nat /\ Arrival(r2) \in Nat /\ Cost(r2) \in Int
    BY <1>2, <1>3, RideFacts
  <1>6. PICK time, cost : time = Arrival(r2) - Departure(r1) /\ cost = Cost(r1) + Cost(r2)
    OBVIOUS
  <1>7. time \in Int /\ cost \in Int
    BY <1>4, <1>5, <1>6
  <1>8. ItineraryKey(t, by_cost) = IF by_cost THEN <<cost, time>> ELSE <<time, cost>>
    BY <1>1, <1>6 DEF ItineraryKey, ByCost
  <1>9. ItineraryKey(t, by_cost)[1] \in Int /\ ItineraryKey(t, by_cost)[2] \in Int
    <2>1. CASE by_cost
      BY <1>7, <1>8, <2>1
    <2>2. CASE ~by_cost
      BY <1>7, <1>8, <2>2
    <2> QED
      BY <2>1, <2>2
  <1> QED
    BY <1>1, <1>2, <1>5, <1>9

LEMMA NoWorseKeys ==
  ASSUME NEW t, NEW x, NEW u, NEW by_cost,
         \A v \in {t, x, u} : /\ ItineraryKey(v, by_cost)[1] \in Int
                              /\ ItineraryKey(v, by_cost)[2] \in Int
  PROVE  /\ NoWorse(t, x, by_cost) /\ NoWorse(x, u, by_cost) => NoWorse(t, u, by_cost)
         /\ ~OptionLess(OptionOf(x, by_cost), OptionOf(t, by_cost)) =>
              NoWorse(t, x, by_cost)
  <1>1. PICK a, b, c : /\ a = ItineraryKey(t, by_cost) /\ b = ItineraryKey(x, by_cost)
                       /\ c = ItineraryKey(u, by_cost)
    OBVIOUS
  <1>2. /\ a[1] \in Int /\ a[2] \in Int /\ b[1] \in Int /\ b[2] \in Int
        /\ c[1] \in Int /\ c[2] \in Int
    BY <1>1
  <1>3. /\ OptionOf(x, by_cost).first_key = b[1] /\ OptionOf(x, by_cost).second_key = b[2]
        /\ OptionOf(t, by_cost).first_key = a[1] /\ OptionOf(t, by_cost).second_key = a[2]
    BY <1>1 DEF OptionOf
  <1>4. ~LexLess(b, a) /\ ~LexLess(c, b) => ~LexLess(c, a)
    BY <1>2 DEF LexLess
  <1>5. ~OptionLess(OptionOf(x, by_cost), OptionOf(t, by_cost)) => ~LexLess(b, a)
    BY <1>3 DEF OptionLess, LexLess
  <1> QED
    BY <1>1, <1>4, <1>5 DEF NoWorse

(* The options have the keys of itineraries.                               *)
LEMMA OptionsKeyed ==
  ASSUME ProperTimetables, QueriesInv, NEW s, NEW e, NEW d, NEW by_cost \in BOOLEAN,
         NEW options \in Seq(Changes(s, e, d, by_cost))
  PROVE  Keyed(options)
  <1> SUFFICES ASSUME NEW i \in DOMAIN options
               PROVE  options[i].first_key \in Int /\ options[i].second_key \in Int
    BY DEF Keyed
  <1>1. PICK t \in Itineraries(s, e, d) : options[i] = OptionOf(t, by_cost)
    BY DEF Changes
  <1>2. ItineraryKey(t, by_cost)[1] \in Int /\ ItineraryKey(t, by_cost)[2] \in Int
    BY KeysOfItinerary
  <1> QED
    BY <1>1, <1>2 DEF OptionOf

(* What query_transfer prints of an option.                                *)
LEMMA ItineraryShown ==
  ASSUME ProperTimetables, QueriesInv, NEW s, NEW e, NEW d, IsDate(d),
         NEW t \in Itineraries(s, e, d), NEW by_cost \in BOOLEAN,
         NEW option, option = OptionOf(t, by_cost), NEW lines,
         lines = << PrintTicket(option.ids[1], s, option.at, ParseDate(d)),
                    PrintTicket(option.ids[2], option.at, e, option.second_date) >>
  PROVE  Len(lines) = 2 /\ Shows(lines[1], t[1]) /\ Shows(lines[2], t[2])
  <1>1. PICK r1, r2, change : r1 = t[1] /\ r2 = t[2] /\ change = Ends(r1)
    OBVIOUS
  <1>2. PICK date, second : date = ParseDate(d) /\ second = Departure(r2) \div 1440
    OBVIOUS
  <1>3. /\ option.ids[1] = r1.id /\ option.ids[2] = r2.id
        /\ option.at = change /\ option.second_date = second
    BY <1>1, <1>2 DEF OptionOf
  <1>4. /\ lines[1] = PrintTicket(r1.id, s, change, date)
        /\ lines[2] = PrintTicket(r2.id, change, e, second)
        /\ Len(lines) = 2
    BY <1>2, <1>3
  <1>5. \A id \in released : Regular(id)
    BY WhatQueriesSee
  <1>6. /\ r1 \in Rides(s) /\ r1.from < r1.to /\ r2 \in Rides(change) /\ r2.from < r2.to
        /\ Departure(r2) \in Int
    BY <1>1, KeysOfItinerary
  <1>7. r1 \in RidesOn(s, d) /\ Ends(r2) = e
    BY <1>1, ItineraryParts
  <1>8. date \in Int /\ LeavesAt(r1.id, r1.day, r1.from) \div 1440 = date
    <2>1. date \in 0 .. 121
      BY <1>2, DateTyped
    <2> QED
      BY <1>2, <1>7, <2>1 DEF RidesOn
  <1>9. second \in Int /\ LeavesAt(r2.id, r2.day, r2.from) \div 1440 = second
    <2>1. LeavesAt(r2.id, r2.day, r2.from) = Departure(r2)
      BY DEF Departure
    <2> QED
      BY <1>2, <1>6, <2>1, SMT
  <1>10. Shows(PrintTicket(r1.id, s, Ends(r1), date), r1)
    BY <1>5, <1>6, <1>8, LineOfRide
  <1>11. Shows(PrintTicket(r2.id, change, Ends(r2), second), r2)
    BY <1>5, <1>6, <1>9, LineOfRide
  <1> QED
    BY <1>1, <1>4, <1>7, <1>10, <1>11

LEMMA TransferShown ==
  ASSUME ProperTimetables, QueriesInv
  PROVE  TransferBest
  <1> SUFFICES ASSUME NEW s \in QueryStations, NEW e \in QueryStations,
                      NEW d \in QueryDays, NEW by_cost \in BOOLEAN
               PROVE  LET lines == QueryTransfer(s, e, ParseDate(d), by_cost)
                          all == Itineraries(s, e, d)
                      IN  IF all = {} THEN lines = Nothing
                          ELSE \E t \in all :
                                 /\ Len(lines) = 2
                                 /\ Shows(lines[1], t[1]) /\ Shows(lines[2], t[2])
                                 /\ \A u \in all : ~LexLess(ItineraryKey(u, by_cost),
                                                            ItineraryKey(t, by_cost))
    BY DEF TransferBest
  <1>1. IsDate(d)
    BY QueryAssumption
  <1>2. PICK date, options, best, lines, n :
          /\ date = ParseDate(d) /\ options = Options(s, e, date, by_cost)
          /\ best = Best(s, e, date, by_cost) /\ n = Len(options)
          /\ lines = QueryTransfer(s, e, date, by_cost)
    OBVIOUS
  <1>3. ~(date < 0)
    <2>1. date \in 0 .. 121
      BY <1>1, <1>2, DateTyped
    <2> QED
      BY <2>1
  <1>4. Serve(options, Itineraries(s, e, d), s, e, d, by_cost)
    BY <1>1, <1>2, OptionsServe
  <1>5. options \in Seq(Changes(s, e, d, by_cost))
    BY <1>4 DEF Serve
  <1>6. Keyed(options)
    BY <1>5, OptionsKeyed
  <1>7. Leading(best, options, n)
    BY <1>2, <1>5, <1>6, BestLeads
  <1>8. n \in Nat /\ DOMAIN options = 1 .. n
    BY <1>2, <1>5
  <1>9. CASE Itineraries(s, e, d) = {}
    <2>1. Changes(s, e, d, by_cost) = {}
      BY <1>9 DEF Changes
    <2>2. n = 0
      BY <1>5, <1>8, <2>1
    <2>3. best = << >>
      BY <1>7, <2>2 DEF Leading
    <2>4. lines = Nothing
      BY <1>2, <1>3, <2>3 DEF QueryTransfer
    <2> QED
      BY <1>2, <1>9, <2>4
  <1>10. CASE Itineraries(s, e, d) # {}
    <2>1. PICK some \in Itineraries(s, e, d) : TRUE
      BY <1>10
    <2>2. PICK near \in Itineraries(s, e, d) : Has(options, OptionOf(near, by_cost))
      BY <1>4, <2>1 DEF Serve
    <2>3. n # 0
      BY <1>8, <2>2 DEF Has
    <2>4. PICK j \in 1 .. n : /\ best = << options[j] >>
                              /\ \A i \in 1 .. n : ~OptionLess(options[i], options[j])
      BY <1>7, <2>3 DEF Leading
    <2>5. PICK option : option = options[j]
      OBVIOUS
    <2>6. option \in Changes(s, e, d, by_cost)
      BY <1>5, <1>8, <2>5
    <2>7. PICK t \in Itineraries(s, e, d) : option = OptionOf(t, by_cost)
      BY <2>6 DEF Changes
    <2>8. best # << >> /\ best[1] = option
      BY <2>4, <2>5
    <2>9. lines = << PrintTicket(option.ids[1], s, option.at, date),
                     PrintTicket(option.ids[2], option.at, e, option.second_date) >>
      BY <1>2, <1>3, <2>8 DEF QueryTransfer
    <2>10. Len(lines) = 2 /\ Shows(lines[1], t[1]) /\ Shows(lines[2], t[2])
      BY <1>1, <1>2, <2>7, <2>9, ItineraryShown
    <2>11. ASSUME NEW u \in Itineraries(s, e, d)
           PROVE  NoWorse(t, u, by_cost)
      <3>1. PICK x \in Itineraries(s, e, d) :
              Has(options, OptionOf(x, by_cost)) /\ NoWorse(x, u, by_cost)
        BY <1>4 DEF Serve
      <3>2. PICK i \in 1 .. n : options[i] = OptionOf(x, by_cost)
        BY <1>8, <3>1 DEF Has
      <3>3. ~OptionLess(OptionOf(x, by_cost), OptionOf(t, by_cost))
        BY <2>4, <2>5, <2>7, <3>2
      <3>4. \A v \in {t, x, u} : /\ ItineraryKey(v, by_cost)[1] \in Int
                                 /\ ItineraryKey(v, by_cost)[2] \in Int
        BY KeysOfItinerary
      <3> QED
        BY <3>1, <3>3, <3>4, NoWorseKeys
    <2>12. \A u \in Itineraries(s, e, d) :
             ~LexLess(ItineraryKey(u, by_cost), ItineraryKey(t, by_cost))
      BY <2>11 DEF NoWorse
    <2> QED
      BY <1>2, <1>10, <2>10, <2>12
  <1> QED
    BY <1>9, <1>10

(* query_transfer (train_manager.cpp), whatever was added, deleted and     *)
(* released before: it finds a change whenever two trains connect, and     *)
(* prints two rides that connect and that no other change beats, in every  *)
(* reachable state and for timetables without surprises.                   *)
THEOREM TransfersAreBest ==
  ASSUME ProperTimetables
  PROVE  TrainSpec => []TransferBest
  <1>1. TrainInit => TrainInv /\ QueriesInv
    BY QueriesInitInv
  <1>2. TrainInv /\ QueriesInv /\ [TrainNext]_trainVars => (TrainInv /\ QueriesInv)'
    BY QueriesNextInv
  <1>3. QueriesInv => TransferBest
    BY TransferShown
  <1> QED
    BY <1>1, <1>2, <1>3, PTL DEF TrainSpec
-----------------------------------------------------------------------------
(* query_train.  Its rows are the stations of the train.                   *)
LEMMA NameOfReleased ==
  ASSUME QueriesInv, NEW id \in released
  PROVE  Found(train_id_index, trains[id].train_name)
         /\ train_id_index[trains[id].train_name] = id
  <1>1. PICK name \in DOMAIN train_id_index : train_id_index[name] = id
    BY DEF QueriesInv, NamesExact
  <1>2. trains[id].train_name = name
    BY <1>1 DEF QueriesInv, NamesExact
  <1> QED
    BY <1>1, <1>2 DEF Found

LEMMA LegSeats ==
  ASSUME TrainInv, SeatsNat, NEW id \in released,
         NEW day \in trains[id].date_beg .. trains[id].date_end,
         NEW no \in 0 .. trains[id].station_count - 2
  PROVE  SeatsLeft(id, day, no, no + 1) = GetVacancy(id, day, no)
  <1>1. PICK v : v = GetVacancy(id, day, no)
    OBVIOUS
  <1>2. v \in Nat
    BY <1>1, VacancyNat DEF OnSaleDay, IsLeg
  <1>3. trains[id].station_count \in Nat
    BY DEF TrainInv, TrainTypeOK, IsTrainInput
  <1>4. no .. (no + 1) - 1 = {no}
    BY <1>3
  <1>5. {GetVacancy(id, day, i) : i \in no .. (no + 1) - 1} = {v}
    BY <1>1, <1>4
  <1>6. Sets!Min({v}) = v
    BY <1>2, LeastOf
  <1> QED
    BY <1>1, <1>5, <1>6 DEF SeatsLeft

LEMMA RowsOfTrain ==
  ASSUME ProperTimetables, QueriesInv, TrainInv, SeatsNat, NEW id \in released,
         NEW day \in trains[id].date_beg .. trains[id].date_end,
         NEW rows, rows = QueryTrain(trains[id].train_name, day)
  PROVE  /\ DOMAIN rows = 1 .. trains[id].station_count
         /\ \A k \in 1 .. trains[id].station_count :
              /\ rows[k].station = trains[id].stations[k - 1]
              /\ rows[k].leaves = DateTimeString(GetLeaveTime(id, day, k - 1))
              /\ rows[k].arrives = DateTimeString(GetArriveTime(id, day, k - 1))
              /\ rows[k].price = trains[id].price[k - 1]
              /\ k # trains[id].station_count =>
                   rows[k].seats[1] = GetVacancy(id, day, k - 1)
  <1>1. Regular(id)
    BY WhatQueriesSee
  <1>2. PICK n, name : n = trains[id].station_count /\ name = trains[id].train_name
    OBVIOUS
  <1>3. n \in Nat /\ n >= 2 /\ trains[id].date_beg \in Nat /\ trains[id].date_end \in Nat
    BY <1>1, <1>2 DEF Regular
  <1>4. ~(day < 0) /\ IsOnSale(id, day)
    BY <1>3 DEF IsOnSale
  <1>5. Found(train_id_index, name) /\ train_id_index[name] = id
    BY <1>2, NameOfReleased
  <1>6. rows = [k \in 1 .. n |-> TrainLine(id, day, k - 1)]
    BY <1>2, <1>4, <1>5 DEF QueryTrain
  <1>7. ASSUME NEW k \in 1 .. n
        PROVE  /\ rows[k].station = trains[id].stations[k - 1]
               /\ rows[k].leaves = DateTimeString(GetLeaveTime(id, day, k - 1))
               /\ rows[k].arrives = DateTimeString(GetArriveTime(id, day, k - 1))
               /\ rows[k].price = trains[id].price[k - 1]
               /\ k # n => rows[k].seats[1] = GetVacancy(id, day, k - 1)
    <2>1. PICK no : no = k - 1
      OBVIOUS
    <2>2. rows[k] = TrainLine(id, day, no)
      BY <1>6, <2>1
    <2>3. /\ rows[k].station = trains[id].stations[no]
          /\ rows[k].leaves = DateTimeString(GetLeaveTime(id, day, no))
          /\ rows[k].arrives = DateTimeString(GetArriveTime(id, day, no))
          /\ rows[k].price = trains[id].price[no]
      BY <2>2 DEF TrainLine
    <2>4. ASSUME k # n
          PROVE  rows[k].seats[1] = GetVacancy(id, day, no)
      <3>1. no \in 0 .. trains[id].station_count - 2
        BY <1>2, <1>3, <2>1, <2>4
      <3>2. no # LastStation(id)
        BY <1>2, <1>3, <2>1, <2>4 DEF LastStation
      <3>3. rows[k].seats = <<SeatsLeft(id, day, no, no + 1)>>
        BY <2>2, <3>2 DEF TrainLine
      <3>4. SeatsLeft(id, day, no, no + 1) = GetVacancy(id, day, no)
        BY <3>1, LegSeats
      <3> QED
        BY <3>3, <3>4
    <2> QED
      BY <2>1, <2>3, <2>4
  <1> QED
    BY <1>2, <1>6, <1>7

(* A line of query_ticket is two rows of query_train.                      *)
TwoRows(rows, line, s, e, a, b) ==
  /\ a < b /\ rows[a].station = s /\ rows[b].station = e
  /\ rows[a].leaves = line.leaves
  /\ rows[b].arrives = line.arrives
  /\ rows[b].price - rows[a].price = line.price
  /\ line.seats = Sets!Min({rows[k].seats[1] : k \in a .. b - 1})

(* The seats of a leg that no order sold has.                              *)
Unsold(id, day, i) == trains[id].seat_count - Cardinality(HeldSeats(id, day, i))

LEMMA VacantIsUnsold ==
  ASSUME TrainInv, SeatsNat, FewOrders, Conserved, NEW id \in released,
         NEW day, OnSaleDay(id, day), NEW i, IsLeg(id, i)
  PROVE  GetVacancy(id, day, i) = Unsold(id, day, i)
  <1>1. PICK v, h, n : /\ v = GetVacancy(id, day, i)
                       /\ h = Cardinality(HeldSeats(id, day, i))
                       /\ n = trains[id].seat_count
    OBVIOUS
  <1>2. v \in Nat /\ h \in Nat /\ n \in Nat
    BY <1>1, BalanceFacts
  <1>3. v + h = n
    BY <1>1 DEF Conserved, Balanced
  <1>4. v = n - h
    BY <1>2, <1>3
  <1> QED
    BY <1>1, <1>4 DEF Unsold

SeatsUnsold(rows, id, day, a, b) ==
  \A k \in a .. b - 1 : rows[k].seats[1] = Unsold(id, day, k - 1)

LEMMA RowsMean ==
  ASSUME NEW line, NEW s, NEW e, NEW day,
         NEW a \in DOMAIN QueryTrain(line.train, day),
         NEW b \in DOMAIN QueryTrain(line.train, day),
         TwoRows(QueryTrain(line.train, day), line, s, e, a, b),
         SeatsUnsold(QueryTrain(line.train, day), train_id_index[line.train], day, a, b)
  PROVE  RowsTell(line, s, e, day)
  BY DEF RowsTell, TwoRows, SeatsUnsold, Unsold

Told(line, s, e, date) ==
  \E n \in 0 .. date : RowsTell(line, s, e, date - n)

LEMMA LineIsRows ==
  ASSUME ProperTimetables, QueriesInv, TrainInv, SeatsNat, FewOrders, Conserved,
         NEW s, NEW e, NEW d, IsDate(d), NEW id, Serves(id, s, e, ParseDate(d)),
         NEW line, line = PrintTicket(id, s, e, ParseDate(d))
  PROVE  Told(line, s, e, ParseDate(d))
  <1>1. PICK r : r = RideOf(id, s, e, ParseDate(d))
    OBVIOUS
  <1>2. /\ r \in RidesOn(s, d) /\ Ends(r) = e /\ r \in Rides(s) /\ r.from < r.to
        /\ r.id = id
        /\ line.leaves = DateTimeString(GetLeaveTime(id, r.day, r.from))
        /\ line.arrives = DateTimeString(GetArriveTime(id, r.day, r.to))
        /\ line.seats = SeatsLeft(id, r.day, r.from, r.to)
    BY <1>1, ServedLine
  <1>3. PICK day, from, to, n :
          /\ day = r.day /\ from = r.from /\ to = r.to
          /\ n = trains[id].station_count
    OBVIOUS
  <1>4. /\ id \in released /\ Regular(id)
        /\ day \in trains[id].date_beg .. trains[id].date_end /\ day \in Nat
        /\ from \in StationNos(id) /\ to \in StationNos(id)
        /\ trains[id].stations[from] = s
    <2>1. \A i \in released : Regular(i)
      BY WhatQueriesSee
    <2> QED
      BY <1>2, <1>3, <2>1, RideFacts
  <1>5. /\ n \in Nat /\ from \in Nat /\ to \in Nat /\ from < to /\ to <= n - 1
    BY <1>2, <1>3, <1>4 DEF Regular, StationNos
  <1>6. day \in 0 .. ParseDate(d)
    <2>1. ParseDate(d) \in Int
      BY DateTyped
    <2>2. day = GetDepartDate(id, ParseDate(d), from)
      <3>1. LeavesAt(id, day, from) \div 1440 = ParseDate(d)
        BY <1>2, <1>3 DEF RidesOn
      <3> QED
        BY <1>4, <2>1, <3>1, DepartsOnce
    <2>3. PICK q : q = LeavesAfter(id, from) \div 1440
      OBVIOUS
    <2>4. q \in Nat
      BY <1>4, <2>3, LeavesAfterNat
    <2>5. day = ParseDate(d) - q
      BY <1>4, <2>1, <2>2, <2>3, DepartDate
    <2> QED
      BY <1>4, <2>1, <2>4, <2>5
  <1>7. PICK rows : rows = QueryTrain(trains[id].train_name, day)
    OBVIOUS
  <1>8. /\ DOMAIN rows = 1 .. n
        /\ \A k \in 1 .. n :
              /\ rows[k].station = trains[id].stations[k - 1]
              /\ rows[k].leaves = DateTimeString(GetLeaveTime(id, day, k - 1))
              /\ rows[k].arrives = DateTimeString(GetArriveTime(id, day, k - 1))
              /\ rows[k].price = trains[id].price[k - 1]
              /\ k # n => rows[k].seats[1] = GetVacancy(id, day, k - 1)
    BY <1>3, <1>4, <1>7, RowsOfTrain
  <1>9. line.train = trains[id].train_name /\ line.price = GetPrice(id, from, to)
    <2>1. from = GetStationNo(id, s) /\ to = GetStationNo(id, e)
      BY <1>1, <1>3 DEF RideOf, Ride
    <2> QED
      BY <2>1 DEF PrintTicket
  <1>10. PICK a \in 1 .. n, b \in 1 .. n : a = from + 1 /\ b = to + 1
    BY <1>5
  <1>11. a - 1 = from /\ b - 1 = to /\ a < b
    BY <1>5, <1>10
  <1>12. /\ rows[a].station = s /\ rows[b].station = e
         /\ rows[a].leaves = line.leaves /\ rows[b].arrives = line.arrives
    <2>1. trains[id].stations[to] = e
      BY <1>2, <1>3 DEF Ends
    <2> QED
      BY <1>2, <1>3, <1>4, <1>8, <1>11, <2>1
  <1>13. rows[b].price - rows[a].price = line.price
    BY <1>8, <1>9, <1>11 DEF GetPrice
  <1>14. line.seats = Sets!Min({rows[k].seats[1] : k \in a .. b - 1})
    <2>1. line.seats = Sets!Min({GetVacancy(id, day, i) : i \in from .. to - 1})
      BY <1>2, <1>3, <1>4 DEF SeatsLeft
    <2>2. \A k \in a .. b - 1 : /\ k - 1 \in from .. to - 1
                                /\ rows[k].seats[1] = GetVacancy(id, day, k - 1)
      <3> SUFFICES ASSUME NEW k \in a .. b - 1
                   PROVE  /\ k - 1 \in from .. to - 1
                          /\ rows[k].seats[1] = GetVacancy(id, day, k - 1)
        OBVIOUS
      <3>1. k \in 1 .. n /\ k # n /\ k - 1 \in from .. to - 1
        BY <1>5, <1>10, <1>11
      <3> QED
        BY <1>8, <3>1
    <2>3. \A i \in from .. to - 1 : /\ i + 1 \in a .. b - 1
                                    /\ rows[i + 1].seats[1] = GetVacancy(id, day, i)
      <3> SUFFICES ASSUME NEW i \in from .. to - 1
                   PROVE  /\ i + 1 \in a .. b - 1
                          /\ rows[i + 1].seats[1] = GetVacancy(id, day, i)
        OBVIOUS
      <3>1. i + 1 \in a .. b - 1 /\ (i + 1) - 1 = i
        BY <1>5, <1>10
      <3> QED
        BY <2>2, <3>1
    <2>4. {rows[k].seats[1] : k \in a .. b - 1}
            = {GetVacancy(id, day, i) : i \in from .. to - 1}
      BY <2>2, <2>3
    <2> QED
      BY <2>1, <2>4
  <1>15. TwoRows(rows, line, s, e, a, b)
    BY <1>11, <1>12, <1>13, <1>14 DEF TwoRows
  <1>16. SeatsUnsold(rows, id, day, a, b)
    <2> SUFFICES ASSUME NEW k \in a .. b - 1
                 PROVE  rows[k].seats[1] = Unsold(id, day, k - 1)
      BY DEF SeatsUnsold
    <2>1. k \in 1 .. n /\ k # n /\ k - 1 \in 0 .. n - 2
      BY <1>5, <1>10, <1>11
    <2>2. rows[k].seats[1] = GetVacancy(id, day, k - 1)
      BY <1>8, <2>1
    <2>3. OnSaleDay(id, day) /\ IsLeg(id, k - 1)
      BY <1>3, <1>4, <2>1 DEF OnSaleDay, IsLeg
    <2> QED
      BY <1>4, <2>2, <2>3, VacantIsUnsold
  <1>17. train_id_index[line.train] = id
    BY <1>4, <1>9, NameOfReleased
  <1>18. PICK date, back : date = ParseDate(d) /\ back = date - day
    OBVIOUS
  <1>19. back \in 0 .. date /\ date - back = day
    <2>1. date \in Int
      BY <1>18, DateTyped
    <2> QED
      BY <1>4, <1>6, <1>18, <2>1
  <1>20. rows = QueryTrain(line.train, day)
    BY <1>7, <1>9
  <1>21. RowsTell(line, s, e, day)
    <2>1. a \in DOMAIN rows /\ b \in DOMAIN rows
      BY <1>8, <1>10
    <2> QED
      BY <1>15, <1>16, <1>17, <1>20, <2>1, RowsMean
  <1>22. Told(line, s, e, date)
    BY <1>19, <1>21 DEF Told
  <1> QED
    BY <1>18, <1>22

LEMMA LinesAreRows ==
  ASSUME ProperTimetables, QueriesInv, TrainInv, SeatsNat, FewOrders, Conserved
  PROVE  TrainAndTicketAgree
  <1>1. ASSUME NEW s \in QueryStations, NEW e \in QueryStations, NEW d \in QueryDays,
               NEW i \in DOMAIN QueryTicket(s, e, ParseDate(d), FALSE)
        PROVE  Told(QueryTicket(s, e, ParseDate(d), FALSE)[i], s, e, ParseDate(d))
    <2>1. IsDate(d)
      BY QueryAssumption
    <2>2. PICK date, lines : /\ date = ParseDate(d)
                             /\ lines = QueryTicket(s, e, date, FALSE)
      OBVIOUS
    <2>3. date \in Nat
      <3>1. date \in 0 .. 121
        BY <2>1, <2>2, DateTyped
      <3> QED
        BY <3>1
    <2>4. PICK m \in Nat : \E ids \in [1 .. m -> released] :
            LinesOf(lines, ids, m, s, e, date, FALSE)
      BY <2>2, <2>3, TicketLines
    <2>5. PICK ids \in [1 .. m -> released] :
            LinesOf(lines, ids, m, s, e, date, FALSE)
      BY <2>4
    <2>6. PICK id, line : id = ids[i] /\ line = lines[i]
      OBVIOUS
    <2>7. i \in 1 .. m
      BY <2>2, <2>5 DEF LinesOf
    <2>8. Serves(id, s, e, date) /\ line = PrintTicket(id, s, e, date)
      BY <2>5, <2>6, <2>7 DEF LinesOf
    <2>9. Told(line, s, e, ParseDate(d))
      BY <2>1, <2>2, <2>8, LineIsRows
    <2> QED
      BY <2>2, <2>6, <2>9
  <1> QED
    BY <1>1 DEF TrainAndTicketAgree, Told

-----------------------------------------------------------------------------
(* The queries while seats are sold and given back.                        *)
LEMMA SellingKeepsRecords ==
  ASSUME BaseInv, QueriesInv, [Next]_vars
  PROVE  QueriesInv'
  <1>1. TrainInv'
    BY BaseNext DEF BaseInv
  <1>2. [TrainNext]_trains
    <2>1. CASE TrainStep \/ Clean
      BY <2>1 DEF TrainStep, Clean, TrainNext
    <2>2. CASE UserStep \/ Restart \/ UNCHANGED vars
      BY <2>2 DEF UserStep, Restart, vars, trainVars
    <2>3. CASE \E u \in Users, name \in TrainNames, date \in BuyDates,
                  s, e \in Stations, num \in SeatNos, agree_to_wait \in BOOLEAN :
                 BuyTicket(u, name, date, s, e, num, agree_to_wait)
      BY <2>3 DEF BuyTicket
    <2>4. CASE \E u \in Users, n \in OrderNos : RefundWaiting(u, n) \/ RefundSold(u, n)
      BY <2>4 DEF RefundWaiting, RefundSold, trainVars
    <2>5. CASE RefundStep
      BY <2>5 DEF RefundStep, SkipEntry, DropEntry, PromoteEntry, ScanAt, FinishRefund,
                  trainVars
    <2> QED
      BY <2>1, <2>2, <2>3, <2>4, <2>5 DEF Next
  <1>3. RecordsFromInput' /\ IsFiniteSet(DOMAIN trains)'
    <2>1. CASE TrainNext
      BY <2>1, RecordsComeFromInput, FiniteTrains DEF QueriesInv
    <2>2. CASE UNCHANGED trains
      BY <2>2 DEF QueriesInv, RecordsFromInput
    <2> QED
      BY <1>2, <2>1, <2>2
  <1> QED
    BY <1>1, <1>3 DEF TrainInv, QueriesInv

LEMMA QueriesWhileSelling ==
  ASSUME ProperOrderNos
  PROVE  Spec => [](BaseInv /\ OrdersInv /\ SeatsNat /\ PassedDontFit /\ QueriesInv)
  <1>1. Init => QueriesInv
    BY QueriesInitInv DEF Init
  <1>2. BaseInv /\ QueriesInv /\ [Next]_vars => QueriesInv'
    BY SellingKeepsRecords
  <1> QED
    BY <1>1, <1>2, QueueIsServed, PTL DEF Spec

(* The seats of the orders sold, added to the invariant.                   *)
LEMMA QueriesAndSeats ==
  ASSUME ProperOrderNos
  PROVE  Spec => []( /\ BaseInv /\ OrdersInv /\ SeatsNat /\ QueriesInv
                     /\ FewOrders /\ Conserved )
  <1>1. Init => FewOrders /\ Conserved
    <2> SUFFICES ASSUME Init PROVE FewOrders /\ Conserved
      OBVIOUS
    <2>1. DOMAIN ticket_index = {} /\ released = {}
      BY DEF Init, TrainInit, EmptyMap
    <2> QED
      BY <2>1, FS_EmptySet DEF FewOrders, Conserved
  <1>2. BaseInv /\ OrdersInv /\ SeatsNat /\ FewOrders /\ Conserved /\ [Next]_vars
          => FewOrders' /\ Conserved'
    BY ConservesNext
  <1> QED
    BY <1>1, <1>2, QueriesWhileSelling, PTL DEF Spec

(* query_train and query_ticket tell the same story while seats are bought *)
(* and given back: a line of the second is two rows of the first, with its *)
(* times, the difference of its prices, and the least of the seats that    *)
(* the rows in between show; and what they show is what no order has.      *)
THEOREM TrainAndTicketTellTheSame ==
  ASSUME ProperTimetables, ProperOrderNos
  PROVE  Spec => []TrainAndTicketAgree
  <1>1. BaseInv /\ SeatsNat /\ QueriesInv /\ FewOrders /\ Conserved
          => TrainAndTicketAgree
    BY LinesAreRows DEF BaseInv
  <1> QED
    BY <1>1, QueriesAndSeats, PTL

(* What query_ticket and query_transfer print stays exact and the best in  *)
(* the whole program, whatever is bought, refunded and queued between.     *)
THEOREM QueriesStayExact ==
  ASSUME ProperTimetables, ProperOrderNos
  PROVE  Spec => [](TicketsExact /\ TransferBest)
  <1>1. QueriesInv => TicketsExact /\ TransferBest
    BY TicketsShown, TransferShown
  <1> QED
    BY <1>1, QueriesWhileSelling, PTL

-----------------------------------------------------------------------------
(* query_order and buy_ticket.  The orders of a user, the latest first.    *)
Latest(met) == \A i, j \in DOMAIN met : i < j => met[i][2] < met[j][2]

Numbered(u, c) == {OrderKey(u, i) : i \in 0 .. c - 1}

LEMMA OrdersListed ==
  ASSUME NEW u, NEW c \in Nat, NEW mine, mine = Numbered(u, c)
  PROVE  /\ IsFiniteSet(mine) /\ Cardinality(mine) = c
         /\ \E met \in [1 .. c -> mine] : Latest(met)
  <1> DEFINE met == [i \in 1 .. c |-> OrderKey(u, c - i)]
  <1>1. \A i \in 1 .. c : c - i \in 0 .. c - 1 /\ OrderKey(u, c - i) \in mine
    BY DEF Numbered
  <1>2. met \in [1 .. c -> mine]
    BY <1>1
  <1>3. \A i \in 1 .. c : met[i] = OrderKey(u, c - i) /\ met[i][2] = i - c
    BY DEF OrderKey
  <1>4. DOMAIN met = 1 .. c
    OBVIOUS
  <1> HIDE DEF met
  <1>5. \A i, j \in 1 .. c : met[i] = met[j] => i = j
    <2> SUFFICES ASSUME NEW i \in 1 .. c, NEW j \in 1 .. c, met[i] = met[j]
                 PROVE  i = j
      OBVIOUS
    <2>1. i - c = j - c
      BY <1>3
    <2> QED
      BY <2>1
  <1>6. \A k \in mine : \E i \in 1 .. c : met[i] = k
    <2> SUFFICES ASSUME NEW k \in mine PROVE \E i \in 1 .. c : met[i] = k
      OBVIOUS
    <2>1. PICK n \in 0 .. c - 1 : k = OrderKey(u, n)
      BY DEF Numbered
    <2>2. PICK i \in 1 .. c : i = c - n
      BY <2>1
    <2>3. n = c - i
      BY <2>1, <2>2
    <2> QED
      BY <1>3, <2>1, <2>3
  <1>7. met \in Bijection(1 .. c, mine)
    BY <1>2, <1>5, <1>6, Fun_IsBij
  <1>8. ExistsBijection(1 .. c, mine)
    BY <1>7 DEF ExistsBijection
  <1>9. IsFiniteSet(mine) /\ Cardinality(mine) = c
    BY <1>8, FS_NatBijection, FS_CountingElements
  <1>10. Latest(met)
    <2> SUFFICES ASSUME NEW i \in 1 .. c, NEW j \in 1 .. c, i < j
                 PROVE  met[i][2] < met[j][2]
      BY <1>4 DEF Latest
    <2> QED
      BY <1>3
  <1> QED
    BY <1>2, <1>9, <1>10

(* Who counts up to c in c steps takes every number.                       *)
LEMMA LatestIsFirst ==
  ASSUME NEW u, NEW c \in Nat, c # 0, NEW mine,
         mine = Numbered(u, c),
         NEW met \in [1 .. c -> mine], Latest(met)
  PROVE  met[1] = OrderKey(u, c - 1)
  <1>1. \A i \in 1 .. c : \E n \in 0 .. c - 1 : met[i] = OrderKey(u, n)
    BY DEF Numbered
  <1>2. ASSUME NEW i \in 1 .. c
        PROVE  met[i][2] \in Int /\ met[i][2] <= 0 /\ met[i][2] >= 1 - c
    <2>1. PICK n \in 0 .. c - 1 : met[i] = OrderKey(u, n)
      BY <1>1
    <2>2. met[i][2] = -n
      BY <2>1 DEF OrderKey
    <2> QED
      BY <2>2
  <1> DEFINE S == {k \in 0 .. c - 1 : met[k + 1][2] >= met[1][2] + k}
  <1>3. 0 \in S
    <2>1. met[1][2] \in Int
      BY <1>2
    <2> QED
      BY <2>1
  <1>4. \A k \in 1 .. c - 1 : k - 1 \in S => k \in S
    <2> SUFFICES ASSUME NEW k \in 1 .. c - 1, k - 1 \in S PROVE k \in S
      OBVIOUS
    <2>1. PICK a, b, f : a = met[k][2] /\ b = met[k + 1][2] /\ f = met[1][2]
      OBVIOUS
    <2>2. a \in Int /\ b \in Int /\ f \in Int
      BY <1>2, <2>1
    <2>3. a < b
      <3>1. k \in DOMAIN met /\ k + 1 \in DOMAIN met /\ k < k + 1
        OBVIOUS
      <3> QED
        BY <2>1, <3>1 DEF Latest
    <2>4. a >= f + (k - 1)
      <3>1. (k - 1) + 1 = k
        OBVIOUS
      <3> QED
        BY <2>1, <3>1
    <2>5. b >= f + k
      BY <2>2, <2>3, <2>4
    <2> QED
      BY <2>1, <2>5
  <1>5. 0 .. c - 1 \subseteq S
    <2>1. c - 1 \in Nat
      OBVIOUS
    <2> HIDE DEF S
    <2> QED
      BY <1>3, <1>4, <2>1, EveryTurn
  <1>6. PICK n \in 0 .. c - 1 : met[1] = OrderKey(u, n)
    BY <1>1
  <1>7. met[1][2] = -n
    BY <1>6 DEF OrderKey
  <1>8. met[(c - 1) + 1][2] >= met[1][2] + (c - 1)
    <2>1. c - 1 \in S
      BY <1>5
    <2> QED
      BY <2>1
  <1>9. PICK l : l = met[c][2]
    OBVIOUS
  <1>10. l \in Int /\ l <= 0
    BY <1>2, <1>9
  <1>11. l >= -n + (c - 1)
    <2>1. (c - 1) + 1 = c
      OBVIOUS
    <2> QED
      BY <1>7, <1>8, <1>9, <2>1
  <1>12. n = c - 1
    BY <1>10, <1>11
  <1> QED
    BY <1>6, <1>12

(* The first line of query_order is the order made last.                   *)
LatestOrderFirst ==
  \A u \in Users : \A c \in Nat :
    LoggedIn(u) /\ logged_in_users[u].order_count = c + 1 =>
      QueryOrder(u).orders[1] = OrderLine(ticket_index[OrderKey(u, c)])

LEMMA LatestOrderIsFirst == BaseInv /\ OrdersInv => LatestOrderFirst
  <1> SUFFICES ASSUME BaseInv, OrdersInv, NEW u \in Users, NEW c \in Nat,
                      LoggedIn(u), logged_in_users[u].order_count = c + 1
               PROVE  QueryOrder(u).orders[1] = OrderLine(ticket_index[OrderKey(u, c)])
    BY DEF LatestOrderFirst
  <1>1. PICK mine, n : /\ mine = {k \in DOMAIN ticket_index : k[1] = u}
                       /\ n = c + 1
    OBVIOUS
  <1>2. n \in Nat /\ n # 0 /\ n - 1 = c
    BY <1>1
  <1>3. mine = Numbered(u, n)
    <2>1. OrdersNumbered
      BY NumbersFollow
    <2>2. OrderCount(u) = n
      BY <1>1 DEF OrderCount
    <2> QED
      BY <1>1, <2>1, <2>2 DEF OrdersNumbered, Numbered
  <1>4. /\ Cardinality(mine) = n
        /\ \E met \in [1 .. n -> mine] : Latest(met)
    BY <1>2, <1>3, OrdersListed
  <1> DEFINE keys == CHOOSE met \in [1 .. Cardinality(mine) -> mine] :
                       \A i, j \in DOMAIN met : i < j => met[i][2] < met[j][2]
  <1>5. keys \in [1 .. n -> mine] /\ Latest(keys)
    <2>1. \E met \in [1 .. Cardinality(mine) -> mine] :
            \A i, j \in DOMAIN met : i < j => met[i][2] < met[j][2]
      BY <1>4 DEF Latest
    <2>2. /\ keys \in [1 .. Cardinality(mine) -> mine]
          /\ \A i, j \in DOMAIN keys : i < j => keys[i][2] < keys[j][2]
      BY <2>1
    <2> HIDE DEF keys
    <2> QED
      BY <1>4, <2>2 DEF Latest
  <1>6. QueryOrder(u).orders = [i \in DOMAIN keys |-> OrderLine(ticket_index[keys[i]])]
    BY <1>1 DEF QueryOrder
  <1> HIDE DEF keys
  <1>7. keys[1] = OrderKey(u, c)
    BY <1>2, <1>3, <1>5, LatestIsFirst
  <1>8. 1 \in DOMAIN keys
    BY <1>2, <1>5
  <1> QED
    BY <1>6, <1>7, <1>8

LEMMA LatestOrderNext == (BaseInv /\ OrdersInv)' => LatestOrderFirst'
  BY LatestOrderIsFirst, PTL

(* The seats left on a range of legs are those of one of them, the fewest. *)
LEMMA LeastSeats ==
  ASSUME TrainInv, SeatsNat, NEW id \in released,
         NEW day \in trains[id].date_beg .. trains[id].date_end,
         NEW from \in Nat, NEW to \in Nat, from < to, to < trains[id].station_count,
         NEW least, least = SeatsLeft(id, day, from, to)
  PROVE  /\ least \in Nat
         /\ \A i \in from .. to - 1 : /\ GetVacancy(id, day, i) \in Nat
                                     /\ least <= GetVacancy(id, day, i)
         /\ \E i \in from .. to - 1 : least = GetVacancy(id, day, i)
  <1> DEFINE legs == from .. to - 1
             S == {GetVacancy(id, day, i) : i \in legs}
  <1>1. \A i \in legs : GetVacancy(id, day, i) \in Nat
    <2> SUFFICES ASSUME NEW i \in legs PROVE GetVacancy(id, day, i) \in Nat
      OBVIOUS
    <2>1. trains[id].station_count \in Nat
      BY DEF TrainInv, TrainTypeOK, IsTrainInput
    <2>2. i \in 0 .. trains[id].station_count - 2
      BY <2>1
    <2> QED
      BY <2>2, VacancyNat DEF OnSaleDay, IsLeg
  <1>2. from \in legs
    OBVIOUS
  <1>3. least = Sets!Min(S)
    BY DEF SeatsLeft
  <1>4. S \in SUBSET Nat /\ S # {}
    BY <1>1, <1>2
  <1>5. least \in S /\ \A y \in S : least <= y
    <2> HIDE DEF S
    <2> QED
      BY <1>3, <1>4, LeastOf
  <1> QED
    BY <1>1, <1>5

(* query_ticket shows as many seats as buy_ticket can sell.                *)
LEMMA FitsBySeats ==
  ASSUME TrainInv, SeatsNat, NEW id \in released,
         NEW day \in trains[id].date_beg .. trains[id].date_end,
         NEW from \in Nat, NEW to \in Nat, from < to, to < trains[id].station_count,
         NEW num \in Nat
  PROVE  Fits(id, day, from, to, num) <=> num <= SeatsLeft(id, day, from, to)
  <1> DEFINE legs == from .. to - 1
  <1>1. PICK least : least = SeatsLeft(id, day, from, to)
    OBVIOUS
  <1>2. /\ least \in Nat
        /\ \A i \in legs : GetVacancy(id, day, i) \in Nat /\ least <= GetVacancy(id, day, i)
        /\ \E i \in legs : least = GetVacancy(id, day, i)
    BY <1>1, LeastSeats
  <1> HIDE DEF legs
  <1>3. Fits(id, day, from, to, num) <=> \A i \in legs : GetVacancy(id, day, i) >= num
    BY DEF Fits, legs
  <1>4. (\A i \in legs : GetVacancy(id, day, i) >= num) => num <= least
    BY <1>2
  <1>5. ASSUME num <= least, NEW i \in legs
        PROVE  GetVacancy(id, day, i) >= num
    <2>1. PICK v : v = GetVacancy(id, day, i)
      OBVIOUS
    <2>2. v \in Nat /\ least <= v
      BY <1>2, <2>1
    <2> QED
      BY <1>2, <1>5, <2>1, <2>2
  <1> QED
    BY <1>1, <1>3, <1>4, <1>5

BoughtTicket(id, day, from, to, num) ==
  TicketInfo(IF Fits(id, day, from, to, num) THEN "SUCCESS" ELSE "PENDING",
             id, day, from, to, num)

(* query_order prints the order just made in its first line.               *)
LEMMA NewOrderShown ==
  ASSUME BaseInv, OrdersInv, LatestOrderFirst', NEW u \in Users, NEW id, NEW day,
         NEW from, NEW to, NEW num, Bought(u, id, day, from, to, num)
  PROVE  QueryOrder(u)'.orders[1] = OrderLine(BoughtTicket(id, day, from, to, num))
  <1>1. PICK c, key, t : /\ c = logged_in_users[u].order_count /\ key = OrderKey(u, c)
                         /\ t = BoughtTicket(id, day, from, to, num)
    OBVIOUS
  <1>2. /\ c \in Nat /\ OrderCount(u) = c
        /\ LoggedIn(u)' /\ logged_in_users'[u].order_count = c + 1
    <2>1. /\ LoggedIn(u) /\ logged_in_users[u] \in UserData
          /\ logged_in_users' =
               [logged_in_users EXCEPT ![u].order_count = @ + 1]
          /\ UNCHANGED profiles
      BY DEF BaseInv, UserInv, UserTypeOK, Bought, PlaceOrder, CountOrder,
             LoggedIn
    <2>2. /\ logged_in_users'[u] =
               [logged_in_users[u] EXCEPT !.order_count = @ + 1]
      BY <2>1 DEF BaseInv, UserInv, UserTypeOK
    <2>3. c \in Nat /\ OrderCount(u) = c
      BY <1>1, <2>1 DEF OrderCount, UserData
    <2> QED
      BY <1>1, <2>1, <2>2, <2>3, UserAssumption DEF LoggedIn, UserData
  <1>3. key \notin DOMAIN ticket_index
    BY <1>1, <1>2 DEF OrdersInv, KeysNumbered, OrderKey
  <1>4. ticket_index' = Insert(ticket_index, key, t)
    BY <1>1 DEF Bought, PlaceOrder, BoughtTicket
  <1>5. ticket_index'[key] = t
    BY <1>3, <1>4 DEF Insert, Found
  <1>6. QueryOrder(u)'.orders[1] = OrderLine(ticket_index[OrderKey(u, c)])'
    BY <1>2 DEF LatestOrderFirst
  <1>7. OrderLine(ticket_index[OrderKey(u, c)])' = OrderLine(t)
    <2>1. trains' = trains
      BY DEF Bought
    <2>2. ticket_index'[OrderKey(u, c)] = t
      BY <1>1, <1>5
    <2> QED
      BY <2>1, <2>2 DEF OrderLine, GetLeaveTime, GetArriveTime, GetPrice, OrderKey
  <1> QED
    BY <1>1, <1>6, <1>7

(* One of the lines of query_ticket is that of the train.                  *)
LEMMA LineOfServed ==
  ASSUME ProperTimetables, QueriesInv, NEW s \in QueryStations, NEW e \in QueryStations,
         NEW date \in Nat, NEW id, Serves(id, s, e, date)
  PROVE  Has(QueryTicket(s, e, date, FALSE), PrintTicket(id, s, e, date))
  <1>1. PICK lines : lines = QueryTicket(s, e, date, FALSE)
    OBVIOUS
  <1>2. PICK m \in Nat : \E ids \in [1 .. m -> released] :
          LinesOf(lines, ids, m, s, e, date, FALSE)
    BY <1>1, TicketLines
  <1>3. PICK ids \in [1 .. m -> released] : LinesOf(lines, ids, m, s, e, date, FALSE)
    BY <1>2
  <1>4. id \in released
    BY DEF Serves
  <1>5. PICK k \in 1 .. m : ids[k] = id
    BY <1>3, <1>4 DEF LinesOf
  <1>6. k \in DOMAIN lines /\ lines[k] = PrintTicket(id, s, e, date)
    BY <1>3, <1>5 DEF LinesOf
  <1> QED
    BY <1>1, <1>6 DEF Has

LEMMA TicketIsOffered ==
  ASSUME ProperTimetables, BuysAsked, BaseInv, OrdersInv, SeatsNat, QueriesInv,
         LatestOrderFirst', NEW u \in Users, NEW name \in TrainNames, NEW date \in BuyDates,
         NEW s \in Stations, NEW e \in Stations, NEW num \in SeatNos, NEW agree \in BOOLEAN,
         BuyTicket(u, name, date, s, e, num, agree)
  PROVE  \E d \in QueryDays : Offered(QueryOrder(u)'.orders[1], d)
  <1>1. PICK id : id = train_id_index[name]
    OBVIOUS
  <1>2. PICK from \in 0 .. trains[id].station_count - 1,
             to \in 0 .. trains[id].station_count - 1 :
          /\ IsStationNo(id, s, from) /\ IsStationNo(id, e, to) /\ from < to
          /\ IsOnSale(id, GetDepartDate(id, date, from))
          /\ PlaceOrder(u, id, GetDepartDate(id, date, from), from, to, num)
    BY <1>1 DEF BuyTicket
  <1>3. PICK day : day = GetDepartDate(id, date, from)
    OBVIOUS
  <1>4. /\ refund = Idle /\ id \in released /\ num <= trains[id].seat_count /\ date >= 0
        /\ UNCHANGED <<train_id_index, trains, released, station_train_index,
                       refund>>
    BY <1>1 DEF BuyTicket
  <1>5. /\ id \in TrainIds /\ IsTrainInput(trains[id]) /\ Regular(id)
        /\ day \in trains[id].date_beg .. trains[id].date_end
    <2>1. id \in TrainIds /\ IsTrainInput(trains[id])
      BY <1>4 DEF BaseInv, TrainInv, TrainTypeOK
    <2>2. Regular(id)
      BY <1>4, WhatQueriesSee
    <2> QED
      BY <1>2, <1>3, <2>1, <2>2 DEF IsOnSale
  <1>6. /\ day \in Nat /\ from \in Nat /\ to \in Nat /\ num \in Nat
        /\ trains[id].station_count \in Nat /\ to < trains[id].station_count
        /\ trains[id].date_beg <= day /\ day <= trains[id].date_end
        /\ num \in 1 .. trains[id].seat_count
    BY <1>2, <1>4, <1>5, TicketAssumption DEF IsTrainInput
  <1>7. Bought(u, id, day, from, to, num)
    <2>1. \A status \in Status : IsServable(TicketInfo(status, id, day, from, to, num))
      BY <1>2, <1>4, <1>6 DEF IsServable, TicketInfo
    <2> QED
      BY <1>2, <1>3, <1>4, <1>5, <1>6, <2>1 DEF Bought
  <1>8. PICK order : /\ order = QueryOrder(u)'.orders[1]
                     /\ order = OrderLine(BoughtTicket(id, day, from, to, num))
    BY <1>7, NewOrderShown
  <1>9. /\ from \in StationNos(id) /\ to \in StationNos(id)
        /\ trains[id].stations[from] = s /\ trains[id].stations[to] = e
    BY <1>2 DEF IsStationNo, StationNos
  <1>10. /\ GetStationNo(id, s) = from /\ GetStationNo(id, e) = to
         /\ s \in StationsOf(id) /\ e \in StationsOf(id)
    BY <1>5, <1>9, NumberOfStation
  <1>11. /\ order.train = trains[id].train_name
         /\ order.from = s /\ order.to = e
         /\ order.leaves = DateTimeString(GetLeaveTime(id, day, from))
         /\ order.arrives = DateTimeString(GetArriveTime(id, day, to))
         /\ order.price = GetPrice(id, from, to) /\ order.num = num
         /\ order.status = IF Fits(id, day, from, to, num) THEN "SUCCESS" ELSE "PENDING"
    BY <1>8, <1>9 DEF OrderLine, BoughtTicket, TicketInfo
  <1>12. PICK line : line = PrintTicket(id, s, e, date)
    OBVIOUS
  <1>13. /\ line.train = trains[id].train_name
         /\ line.leaves = DateTimeString(GetLeaveTime(id, day, from))
         /\ line.arrives = DateTimeString(GetArriveTime(id, day, to))
         /\ line.price = GetPrice(id, from, to)
         /\ line.seats = SeatsLeft(id, day, from, to)
    BY <1>3, <1>10, <1>12 DEF PrintTicket
  <1>14. order.status = "SUCCESS" <=> order.num <= line.seats
    <2>1. Fits(id, day, from, to, num) <=> num <= SeatsLeft(id, day, from, to)
      BY <1>2, <1>4, <1>5, <1>6, FitsBySeats DEF BaseInv
    <2> QED
      BY <1>11, <1>13, <2>1
  <1>15. Serves(id, s, e, date)
    <2>1. from # LastStation(id)
      BY <1>2, <1>6 DEF LastStation
    <2> QED
      BY <1>2, <1>4, <1>10, <2>1 DEF Serves, Goes
  <1>16. date \in Nat /\ s \in QueryStations /\ e \in QueryStations
    BY <1>4, TicketAssumption DEF BuysAsked
  <1>17. Has(QueryTicket(s, e, date, FALSE), line)
    BY <1>12, <1>15, <1>16, LineOfServed
  <1>18. PICK d \in QueryDays : ParseDate(d) = date
    BY <1>4 DEF BuysAsked
  <1>19. PICK lines : lines = QueryTicket(order.from, order.to, ParseDate(d), FALSE)
    OBVIOUS
  <1>20. PICK i \in DOMAIN lines : lines[i] = line
    BY <1>11, <1>17, <1>18, <1>19 DEF Has
  <1>21. Offered(order, d)
    BY <1>11, <1>13, <1>14, <1>19, <1>20 DEF Offered
  <1> QED
    BY <1>8, <1>21

(* No other step gives a user more orders.                                 *)
MineNow(u) == {k \in DOMAIN ticket_index : k[1] = u}

LEMMA CountOfOrders ==
  ASSUME FewOrders, NEW u, NEW S \in SUBSET MineNow(u)
  PROVE  ~(Cardinality(S) > Cardinality(MineNow(u)))
  <1>1. MineNow(u) \in SUBSET DOMAIN ticket_index
    BY DEF MineNow
  <1>2. IsFiniteSet(MineNow(u))
    BY <1>1, FS_Subset DEF FewOrders
  <1>3. IsFiniteSet(S) /\ Cardinality(S) <= Cardinality(MineNow(u))
    BY <1>2, FS_Subset
  <1>4. Cardinality(S) \in Nat /\ Cardinality(MineNow(u)) \in Nat
    BY <1>2, <1>3, FS_CardinalityType
  <1> QED
    BY <1>3, <1>4

LEMMA NextAsOffered ==
  ASSUME ProperTimetables, BuysAsked, ProperOrderNos, BaseInv, OrdersInv, SeatsNat,
         QueriesInv, FewOrders, LatestOrderFirst', [Next]_vars, NEW u \in Users
  PROVE  OffersKept(u)
  <1>1. CASE {k \in DOMAIN ticket_index' : k[1] = u} \subseteq MineNow(u)
    <2>1. PICK S \in SUBSET MineNow(u) : S = {k \in DOMAIN ticket_index' : k[1] = u}
      BY <1>1
    <2>2. ~(Cardinality(S) > Cardinality(MineNow(u)))
      BY CountOfOrders
    <2> QED
      BY <2>1, <2>2 DEF OffersKept, MineNow
  <1>2. CASE DOMAIN ticket_index' \subseteq DOMAIN ticket_index
    <2>1. {k \in DOMAIN ticket_index' : k[1] = u} \subseteq MineNow(u)
      BY <1>2 DEF MineNow
    <2> QED
      BY <1>1, <2>1
  <1>3. ASSUME NEW v \in Users, NEW name \in TrainNames, NEW date \in BuyDates,
               NEW s \in Stations, NEW e \in Stations, NEW num \in SeatNos,
               NEW agree \in BOOLEAN,
               BuyTicket(v, name, date, s, e, num, agree)
        PROVE  OffersKept(u)
    <2>1. CASE v = u
      <3>1. \E d \in QueryDays : Offered(QueryOrder(u)'.orders[1], d)
        BY <1>3, <2>1, TicketIsOffered
      <3> QED
        BY <3>1 DEF OffersKept
    <2>2. CASE v # u
      <3>1. PICK no, t : ticket_index' = Insert(ticket_index, OrderKey(v, no), t)
        BY <1>3 DEF BuyTicket, PlaceOrder
      <3>2. DOMAIN ticket_index' \subseteq DOMAIN ticket_index \cup {OrderKey(v, no)}
        BY <3>1 DEF Insert, Found
      <3>3. OrderKey(v, no)[1] # u
        BY <2>2 DEF OrderKey
      <3>4. {k \in DOMAIN ticket_index' : k[1] = u} \subseteq MineNow(u)
        BY <3>2, <3>3 DEF MineNow
      <3> QED
        BY <1>1, <3>4
    <2> QED
      BY <2>1, <2>2
  <1>4. CASE UNCHANGED ticket_index
    BY <1>2, <1>4
  <1>5. ASSUME NEW v \in Users, NEW n \in OrderNos, RefundWaiting(v, n)
        PROVE  OffersKept(u)
    <2>1. PICK k : k = OrderKey(v, OrderNo(v, n))
      OBVIOUS
    <2>2. /\ k \in DOMAIN ticket_index
          /\ ticket_index' =
               SetValue(ticket_index, k, WithStatus(ticket_index[k], "REFUNDED"))
      BY <1>5, <2>1, OrderIsFound DEF RefundWaiting, ProperOrderNos
    <2> QED
      BY <1>2, <2>2 DEF SetValue
  <1>6. ASSUME NEW k, PromoteEntry(k)
        PROVE  OffersKept(u)
    <2>1. EntryOrder(k) \in DOMAIN ticket_index
      BY <1>6, ScanFacts DEF PromoteEntry
    <2> QED
      BY <1>2, <1>6, <2>1 DEF PromoteEntry, SetValue
  <1>7. CASE FinishRefund
    <2>1. PICK o : o = OrderKey(refund.user, refund.order_no)
      OBVIOUS
    <2>2. /\ o \in DOMAIN ticket_index
          /\ ticket_index' =
               SetValue(ticket_index, o, WithStatus(ticket_index[o], "REFUNDED"))
      BY <1>7, <2>1 DEF OrdersInv, CopyIsCurrent, FinishRefund
    <2> QED
      BY <1>2, <2>2 DEF SetValue
  <1>8. CASE Clean
    <2>1. DOMAIN ticket_index' = {}
      BY <1>8 DEF Clean, EmptyMap
    <2> QED
      BY <1>2, <2>1
  <1> QED
    BY <1>3, <1>4, <1>5, <1>6, <1>7, <1>8
    DEF Next, UserStep, TrainStep, RefundSold, RefundStep, SkipEntry, DropEntry,
        Restart, ticketVars, vars

(* A ticket is what was offered: a new order is, in query_order's words, a *)
(* line query_ticket would have printed just before, and it has its seats  *)
(* at once exactly if query_ticket showed that many.                       *)
THEOREM TicketsAsOffered ==
  ASSUME ProperTimetables, BuysAsked, ProperOrderNos
  PROVE  Spec => TicketAsOffered
  <1> DEFINE Inv == /\ BaseInv /\ OrdersInv /\ SeatsNat /\ QueriesInv
                    /\ FewOrders /\ Conserved
             Step == \A u \in Users : OffersKept(u)
  <1>1. Inv /\ Inv' /\ [Next]_vars => [Step]_vars
    BY LatestOrderNext, NextAsOffered
  <1>2. Spec => []Inv
    BY QueriesAndSeats
  <1> HIDE DEF Inv
  <1> QED
    BY <1>1, <1>2, PTL DEF Spec, TicketAsOffered
=============================================================================
