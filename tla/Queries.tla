------------------------------ MODULE Queries -------------------------------
(***************************************************************************)
(* query_train, query_ticket and query_transfer of class TrainManager:     *)
(* what they print, computed as the code computes it.  They change         *)
(* nothing, so they are operators over the state of module TrainManager.   *)
(***************************************************************************)
EXTENDS TrainManager, Parser, Utility, FiniteSets
Seqs == INSTANCE SequencesExt
Sets == INSTANCE FiniteSetsExt

CONSTANTS
  QueryDays,       \* the values of -d given to the queries, <<month, day>>
  QueryStations    \* the values of -s and -t given to the queries

(* The days of June to September, which dates of the program count.        *)
IsDate(d) ==
  /\ d \in (6 .. 9) \X (1 .. 31)
  /\ d[1] \in {6, 9} => d[2] <= 30

(* Names are numbers here, in the order the strings have.                  *)
ASSUME QueryAssumption ==
  /\ TrainNames \subseteq Nat /\ TrainIds \subseteq Nat
  /\ QueryStations \subseteq Stations
  /\ \A d \in QueryDays : IsDate(d)

(* The no-th line of a failure, or of an answer without lines, is missing. *)
Nothing == << >>

GetStationNo(id, s) ==
  IF s \in StationsOf(id)
    THEN CHOOSE no \in 0 .. trains[id].station_count - 1 : IsStationNo(id, s, no)
    ELSE -1

LastStation(id) == trains[id].station_count - 1

(* Mutant: only the leg where the passenger gets on is looked at.          *)
SeatsLeftFirstLeg(id, date, from, to) ==
  IF id \in released THEN GetVacancy(id, date, from) ELSE trains[id].seat_count

(* Vacancy::GetVacancy over a range, or all the seats if none can be sold. *)
SeatsLeft(id, date, from, to) ==
  IF id \in released
    THEN Sets!Min({GetVacancy(id, date, i) : i \in from .. to - 1})
    ELSE trains[id].seat_count

PrintTicket(id, s, e, date) ==
  LET from == GetStationNo(id, s)
      to == GetStationNo(id, e)
      depart_date == GetDepartDate(id, date, from)
  IN  [train |-> trains[id].train_name, from |-> s, to |-> e,
       leaves |-> DateTimeString(GetLeaveTime(id, depart_date, from)),
       arrives |-> DateTimeString(GetArriveTime(id, depart_date, to)),
       price |-> GetPrice(id, from, to),
       seats |-> SeatsLeft(id, depart_date, from, to)]

-----------------------------------------------------------------------------
(* query_train: one line per station; the seats are those of the leg that  *)
(* begins there, an x at the last station.                                 *)
TrainLine(id, date, no) ==
  [station |-> trains[id].stations[no],
   arrives |-> DateTimeString(GetArriveTime(id, date, no)),
   leaves |-> DateTimeString(GetLeaveTime(id, date, no)),
   price |-> trains[id].price[no],
   seats |-> IF no = LastStation(id) THEN Nothing
             ELSE <<SeatsLeft(id, date, no, no + 1)>>]

QueryTrain(name, date) ==
  LET id == train_id_index[name]
  IN  IF date < 0 \/ ~Found(train_id_index, name) THEN Nothing
      ELSE IF ~IsOnSale(id, date) THEN Nothing
      ELSE [i \in 1 .. trains[id].station_count |-> TrainLine(id, date, i - 1)]

-----------------------------------------------------------------------------
(* The trains an iterator over station_train_index meets at a station: the *)
(* pairs are ordered by the record ids.                                    *)
TrainsAt(s) ==
  LET ids == {id \in DOMAIN trains : <<s, id>> \in station_train_index}
  IN  CHOOSE met \in [1 .. Cardinality(ids) -> ids] :
        \A i, j \in DOMAIN met : i < j => met[i] < met[j]

Goes(id, s, e, date) ==
  LET from == GetStationNo(id, s)
  IN  /\ from # LastStation(id)
      /\ IsOnSale(id, GetDepartDate(id, date, from))
      /\ from < GetStationNo(id, e)

(* Mutant: the second iterator is moved past the train it stands at.       *)
JoinStepTooFar(there, join, id, goes) ==
  LET at == Sets!Min({k \in join.at .. Len(there) + 1 :
                        k <= Len(there) => there[k] > id})
  IN  [at |-> at, found |-> IF at <= Len(there) /\ there[at] = id /\ goes
                            THEN Append(join.found, id) ELSE join.found]

(* The second iterator is moved to the first train that is not before id;  *)
(* once it has left its station nothing more is found.                     *)
JoinStep(there, join, id, goes) ==
  LET at == Sets!Min({k \in join.at .. Len(there) + 1 :
                        k <= Len(there) => there[k] >= id})
  IN  [at |-> at, found |-> IF at <= Len(there) /\ there[at] = id /\ goes
                            THEN Append(join.found, id) ELSE join.found]

(* The trains that stop at both stations and go: two ordered lists are     *)
(* merged.                                                                 *)
Join(s, e, date) ==
  LET here == TrainsAt(s)
      there == TrainsAt(e)
      join[k \in 0 .. Len(here)] ==
        IF k = 0 THEN [at |-> 1, found |-> << >>]
        ELSE JoinStep(there, join[k - 1], here[k], Goes(here[k], s, e, date))
  IN  join[Len(here)].found

SortKey(id, s, e, by_cost) ==
  IF by_cost THEN GetPrice(id, GetStationNo(id, s), GetStationNo(id, e))
             ELSE GetTravelTime(id, GetStationNo(id, s), GetStationNo(id, e))

(* Tuples <<key, name, train>> in the order of std::tuple.                 *)
TupleLess(x, y) ==
  \E i \in 1 .. 3 : x[i] < y[i] /\ \A j \in 1 .. i - 1 : x[j] = y[j]

QueryTicket(s, e, date, by_cost) ==
  LET going == Join(s, e, date)
      found == [i \in DOMAIN going |-> <<SortKey(going[i], s, e, by_cost),
                                         trains[going[i]].train_name, going[i]>>]
      comp == {pair \in Seqs!ToSet(found) \X Seqs!ToSet(found) :
                 TupleLess(pair[1], pair[2])}
      sorted == Sort(found, comp)
  IN  IF date < 0 THEN Nothing
      ELSE [i \in DOMAIN sorted |-> PrintTicket(sorted[i][3], s, e, date)]

-----------------------------------------------------------------------------
(* query_transfer.  The first trains, with every later station as a place  *)
(* to change.                                                              *)
FirstTrainsOf(id, s, date) ==
  LET from == GetStationNo(id, s)
      depart_date == GetDepartDate(id, date, from)
  IN  IF from = LastStation(id) \/ ~IsOnSale(id, depart_date) THEN << >>
      ELSE [k \in 1 .. LastStation(id) - from |->
              [at |-> trains[id].stations[from + k], id |-> id,
               arrive_time |-> GetArriveTime(id, depart_date, from + k),
               depart_time |-> GetLeaveTime(id, depart_date, from),
               cost |-> GetPrice(id, from, from + k)]]

FirstTrains(s, date) ==
  LET here == TrainsAt(s)
  IN  Seqs!FlattenSeq([i \in DOMAIN here |-> FirstTrainsOf(here[i], s, date)])

(* The first day of the second train that leaves no later than the first   *)
(* train arrives, and not before its sale begins.                          *)
SecondDepartDate(id, no, arrive_time) ==
  LET date == GetDepartDate(id, DivC(arrive_time, 1440), no)
      next == IF GetLeaveTime(id, date, no) < arrive_time THEN date + 1 ELSE date
  IN  Sets!Max({next, trains[id].date_beg})

Option(first, id, no, to, by_cost) ==
  LET depart_date == SecondDepartDate(id, no, first.arrive_time)
      time == GetArriveTime(id, depart_date, to) - first.depart_time
      cost == first.cost + GetPrice(id, no, to)
  IN  [first_key |-> IF by_cost THEN cost ELSE time,
       second_key |-> IF by_cost THEN time ELSE cost,
       ids |-> <<first.id, id>>, at |-> first.at,
       second_date |-> DivC(GetLeaveTime(id, depart_date, no), 1440)]

(* A first train brings passengers to station no of another train that     *)
(* still runs then.                                                        *)
Feeds(first, id, no) ==
  /\ first.at = trains[id].stations[no] /\ first.id # id
  /\ SecondDepartDate(id, no, first.arrive_time) <= trains[id].date_end

(* Every way to change into train id before its station to, the last place *)
(* to change first.  The stable sort of the first trains by station and    *)
(* lower_bound keep their order.                                           *)
OptionsWith(firsts, id, to, by_cost) ==
  Seqs!FlattenSeq(
    [k \in 1 .. to |-> Seqs!FlattenSeq(
       [j \in DOMAIN firsts |->
          IF Feeds(firsts[j], id, to - k)
            THEN << Option(firsts[j], id, to - k, to, by_cost) >>
            ELSE << >>])])

(* Mutant: a later option with the same first key is not looked at.        *)
ConsiderFirstKey(best, option) ==
  IF best # << >> /\ option.first_key >= best[1].first_key THEN best
  ELSE <<option>>

(* Options with equal keys do not reach the comparison of the names: the   *)
(* first one enumerated stays.                                             *)
Consider(best, option) ==
  IF best # << >> /\ \/ option.first_key > best[1].first_key
                     \/ /\ option.first_key = best[1].first_key
                        /\ option.second_key >= best[1].second_key
    THEN best
    ELSE <<option>>

Options(s, e, date, by_cost) ==
  LET firsts == FirstTrains(s, date)
      there == TrainsAt(e)
  IN  Seqs!FlattenSeq(
        [i \in DOMAIN there |->
           OptionsWith(firsts, there[i], GetStationNo(there[i], e), by_cost)])

Best(s, e, date, by_cost) ==
  LET options == Options(s, e, date, by_cost)
      best[k \in 0 .. Len(options)] ==
        IF k = 0 THEN << >> ELSE Consider(best[k - 1], options[k])
  IN  best[Len(options)]

QueryTransfer(s, e, date, by_cost) ==
  LET best == IF date < 0 THEN << >> ELSE Best(s, e, date, by_cost)
  IN  IF best = << >> THEN Nothing
      ELSE << PrintTicket(best[1].ids[1], s, best[1].at, date),
              PrintTicket(best[1].ids[2], best[1].at, e, best[1].second_date) >>

-----------------------------------------------------------------------------
(* The timetables the queries are made for: no station twice, and times    *)
(* that fit time_t.                                                        *)
ProperTimetables ==
  \A t \in TrainInputs :
    /\ \A i, j \in 0 .. t.station_count - 1 : t.stations[i] = t.stations[j] => i = j
    /\ \A i \in 1 .. t.station_count - 1 :
         /\ {t.travel[i], Stopover(t, i), t.prices[i]} \subseteq Int
         /\ LeaveTime(t)[i] \in Nat /\ ArriveTime(t)[i] \in Nat

(* What passengers are promised, without indexes, joins or sorting: the    *)
(* rides of the released trains, each from a station to a later one on a   *)
(* day of its sale.                                                        *)
LeavesAt(id, day, no) ==
  day * 1440 + trains[id].depart_time + trains[id].leave_time[no]

ArrivesAt(id, day, no) ==
  day * 1440 + trains[id].depart_time + trains[id].arrive_time[no]

Rides(s) ==
  UNION {{[id |-> id, day |-> day, from |-> from, to |-> to] :
            day \in trains[id].date_beg .. trains[id].date_end,
            from \in {n \in 0 .. LastStation(id) : trains[id].stations[n] = s},
            to \in 1 .. LastStation(id)} : id \in released}

RidesOn(s, d) ==
  {r \in Rides(s) : r.from < r.to
                    /\ LeavesAt(r.id, r.day, r.from) \div 1440 = ParseDate(d)}

Ends(r) == trains[r.id].stations[r.to]

Departure(r) == LeavesAt(r.id, r.day, r.from)

Arrival(r) == ArrivesAt(r.id, r.day, r.to)

Cost(r) == trains[r.id].price[r.to] - trains[r.id].price[r.from]

(* A printed time, read the way the program reads dates and times.         *)
Minutes(m) == ParseDate(<<m[1], m[2]>>) * 1440 + ParseTime(<<m[3], m[4]>>)

(* The seats that are free all the way, on the day the train sets out.     *)
FreeSeats(r) == Sets!Min({GetVacancy(r.id, r.day, i) : i \in r.from .. r.to - 1})

(* The line printed for a ride.                                            *)
Shows(line, r) ==
  /\ line.train = trains[r.id].train_name
  /\ line.from = trains[r.id].stations[r.from] /\ line.to = Ends(r)
  /\ Minutes(line.leaves) = Departure(r) /\ Minutes(line.arrives) = Arrival(r)
  /\ line.price = Cost(r) /\ line.seats = FreeSeats(r)

LexLess(x, y) == x[1] < y[1] \/ (x[1] = y[1] /\ x[2] < y[2])

ByCost(by_cost, time, cost) == IF by_cost THEN <<cost, time>> ELSE <<time, cost>>

(* query_ticket lists the rides of the day asked for, each once and none   *)
(* else, the fastest or the cheapest first and equal ones by train: the    *)
(* merge of the station lists finds them all, whatever was added, deleted  *)
(* and released in between, the printed day is the day typed, and the      *)
(* seats are the fewest that any leg of the ride has left.                 *)
TicketsExact ==
  \A s, e \in QueryStations, d \in QueryDays, by_cost \in BOOLEAN :
    LET lines == QueryTicket(s, e, ParseDate(d), by_cost)
        rides == {r \in RidesOn(s, d) : Ends(r) = e}
        key(line) == <<ByCost(by_cost, Minutes(line.arrives) - Minutes(line.leaves),
                              line.price)[1], line.train>>
    IN  /\ \A r \in rides : \E i \in DOMAIN lines : Shows(lines[i], r)
        /\ \A i \in DOMAIN lines :
             /\ \E r \in rides : Shows(lines[i], r)
             /\ <<lines[i].leaves[1], lines[i].leaves[2]>> = d
             /\ i > 1 => LexLess(key(lines[i - 1]), key(lines[i]))

(* Two rides of different trains with a change that waits for the second.  *)
Itineraries(s, e, d) ==
  UNION {{<<r1, r2>> : r2 \in {r \in Rides(Ends(r1)) :
             /\ r.id # r1.id /\ r.from < r.to /\ Ends(r) = e
             /\ Departure(r) >= Arrival(r1)}} : r1 \in RidesOn(s, d)}

ItineraryKey(t, by_cost) ==
  ByCost(by_cost, Arrival(t[2]) - Departure(t[1]), Cost(t[1]) + Cost(t[2]))

(* query_transfer finds a change whenever two trains connect, on whatever  *)
(* day the second one leaves, and prints two rides that connect and that   *)
(* no other change beats in time and then cost, or in cost and then time.  *)
TransferBest ==
  \A s, e \in QueryStations, d \in QueryDays, by_cost \in BOOLEAN :
    LET lines == QueryTransfer(s, e, ParseDate(d), by_cost)
        all == Itineraries(s, e, d)
    IN  IF all = {} THEN lines = Nothing
        ELSE \E t \in all :
               /\ Len(lines) = 2 /\ Shows(lines[1], t[1]) /\ Shows(lines[2], t[2])
               /\ \A u \in all : ~LexLess(ItineraryKey(u, by_cost),
                                          ItineraryKey(t, by_cost))
=============================================================================
