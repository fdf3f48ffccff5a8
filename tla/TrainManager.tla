---------------------------- MODULE TrainManager ----------------------------
(***************************************************************************)
(* class TrainManager with the records it keeps in the variable-length     *)
(* store: a train is added, then deleted or released; releasing it creates *)
(* its Vacancy records, one per batch of DATE_BATCH_SIZE days, and lists   *)
(* it at its stations.  A Vacancy record is one flat array for all the     *)
(* days of its batch.  Record ids stand for the addresses the store hands  *)
(* out, station ids for the station names they are created from (names are *)
(* hashed, and hashes are taken to be free of collisions).  The seats in   *)
(* the Vacancy records are taken and given back by module TicketSystem.    *)
(***************************************************************************)
EXTENDS Integers, OrderedMap

CONSTANTS
  TrainNames,       \* the values of -i given to the commands
  TrainIds,         \* the record ids the store can give to TrainInfo records
  Stations,         \* the station names given to the commands
  TrainInputs,      \* the trains described by the arguments of add_train
  DATE_BATCH_SIZE   \* days in one Vacancy record (10 in config.h)

VARIABLES
  train_id_index,       \* map: name -> record id
  trains,               \* map: record id -> TrainInfo, but for its flag
  released,             \* the ids of the records whose flag released is set
  vacancy,              \* map: <<record id, batch>> -> Vacancy
  station_train_index   \* set of <<station, record id>>

trainVars ==
  <<train_id_index, trains, released, vacancy, station_train_index>>

(* The arguments of add_train, parsed.  Stations are numbered from 0; leg  *)
(* i, from station i - 1 to station i, has a travel time and a price, and  *)
(* every station but the first and the last has a stopover time.           *)
IsTrainInput(t) ==
  /\ t.station_count \in Nat /\ t.station_count >= 2
  /\ t.seat_count \in Nat
  /\ t.depart_time \in 0 .. 1439
  /\ t.date_beg \in Nat /\ t.date_end \in Nat
  /\ t.stations \in [0 .. t.station_count - 1 -> Stations]

ASSUME TrainAssumption ==
  /\ DATE_BATCH_SIZE \in Nat \ {0}
  /\ \A t \in TrainInputs : IsTrainInput(t)

-----------------------------------------------------------------------------
(* time_t is int16_t: sums of times wrap.                                  *)
Int16(x) == ((x + 32768) % 65536) - 32768

(* Division of C++, towards zero.                                          *)
DivC(a, b) == IF a >= 0 THEN a \div b ELSE -((-a) \div b)

Stopover(t, i) == IF i = t.station_count - 1 THEN 0 ELSE t.stopover[i]

(* The accumulation loop of AddTrain: times since the departure from the   *)
(* first station, prices from the first station.                           *)
LeaveTime(t) ==
  LET total[i \in 0 .. t.station_count - 1] ==
        IF i = 0 THEN 0
        ELSE Int16(total[i - 1] + t.travel[i] + Stopover(t, i))
  IN total

ArriveTime(t) ==
  [i \in 1 .. t.station_count - 1 |-> Int16(LeaveTime(t)[i] - Stopover(t, i))]

Price(t) ==
  LET total[i \in 0 .. t.station_count - 1] ==
        IF i = 0 THEN 0 ELSE total[i - 1] + t.prices[i]
  IN total

TrainInfo(name, t) ==
  [train_name |-> name, stations |-> t.stations, station_count |-> t.station_count,
   seat_count |-> t.seat_count, depart_time |-> t.depart_time,
   date_beg |-> t.date_beg, date_end |-> t.date_end,
   arrive_time |-> ArriveTime(t), leave_time |-> LeaveTime(t),
   price |-> Price(t)]

-----------------------------------------------------------------------------
(* Mutant: the first day of the sale is not looked at.                     *)
IsOnSaleUntil(id, date) == date <= trains[id].date_end

IsOnSale(id, date) == date \in trains[id].date_beg .. trains[id].date_end

(* Only the first stop at a station is found.                              *)
IsStationNo(id, s, no) ==
  /\ no \in 0 .. trains[id].station_count - 1
  /\ trains[id].stations[no] = s
  /\ \A i \in 0 .. no - 1 : trains[id].stations[i] # s

(* Mutant: the time of departure from the first station is forgotten.      *)
GetDepartDateFromZero(id, date, no) ==
  IF no = 0 THEN date ELSE date - DivC(trains[id].leave_time[no], 1440)

(* The day the train departs from its first station, for somebody who      *)
(* leaves from station no on the day given.                                *)
GetDepartDate(id, date, no) ==
  IF no = 0 THEN date
  ELSE date - DivC(trains[id].depart_time + trains[id].leave_time[no], 1440)

(* Minutes since the midnight before day 0; -1 where there is no arrival,  *)
(* or no departure.                                                        *)
GetArriveTime(id, date, no) ==
  IF no = 0 THEN -1
  ELSE date * 1440 + trains[id].depart_time + trains[id].arrive_time[no]

GetLeaveTime(id, date, no) ==
  CASE no = 0 -> date * 1440 + trains[id].depart_time
    [] no = trains[id].station_count - 1 -> -1
    [] OTHER -> date * 1440 + trains[id].depart_time + trains[id].leave_time[no]

GetTravelTime(id, from, to) ==
  IF from = 0 THEN trains[id].arrive_time[to]
  ELSE Int16(trains[id].arrive_time[to] - trains[id].leave_time[from])

GetPrice(id, from, to) == trains[id].price[to] - trains[id].price[from]

GetVacancyId(id, date) == <<id, date \div DATE_BATCH_SIZE>>

(* Mutant: the day is not reduced to its place in the batch's stride.      *)
SlotShortStride(id, date, i) ==
  (date % DATE_BATCH_SIZE) * (trains[id].station_count - 2) + i

(* The place of a day and a leg in the array of its batch.                 *)
Slot(id, date, i) ==
  (date % DATE_BATCH_SIZE) * (trains[id].station_count - 1) + i

GetVacancy(id, date, i) == vacancy[GetVacancyId(id, date)][Slot(id, date, i)]

(* Mutant: the last leg of the range is not looked at.                     *)
FitsButLastLeg(id, date, from, to, num) ==
  \A i \in from .. to - 2 : GetVacancy(id, date, i) >= num

(* Vacancy::GetVacancy over a range is a minimum; every caller compares it *)
(* with a number of seats.                                                 *)
Fits(id, date, from, to, num) ==
  \A i \in from .. to - 1 : GetVacancy(id, date, i) >= num

(* Mutant: one leg too many.                                               *)
ReduceVacancyTooFar(id, date, from, to, num) ==
  LET row == vacancy[GetVacancyId(id, date)]
  IN [vacancy EXCEPT ![GetVacancyId(id, date)] =
        [j \in DOMAIN row |->
           IF j \in Slot(id, date, from) .. Slot(id, date, to)
             THEN row[j] - num ELSE row[j]]]

(* The seats of legs from .. to - 1 are taken, or given back if num < 0.   *)
ReduceVacancy(id, date, from, to, num) ==
  LET row == vacancy[GetVacancyId(id, date)]
  IN [vacancy EXCEPT ![GetVacancyId(id, date)] =
        [j \in DOMAIN row |->
           IF j \in Slot(id, date, from) .. Slot(id, date, to - 1)
             THEN row[j] - num ELSE row[j]]]

-----------------------------------------------------------------------------
TrainInit ==
  /\ train_id_index = EmptyMap
  /\ trains = EmptyMap
  /\ released = {}
  /\ vacancy = EmptyMap
  /\ station_train_index = {}

(* Mutant: the train is listed at its stations before it is released.      *)
AddTrainListed(name, id, t) ==
  /\ ~Found(train_id_index, name)
  /\ ~Found(trains, id)
  /\ train_id_index' = Insert(train_id_index, name, id)
  /\ trains' = Insert(trains, id, TrainInfo(name, t))
  /\ station_train_index' = station_train_index
       \cup {<<t.stations[i], id>> : i \in 0 .. t.station_count - 1}
  /\ UNCHANGED <<released, vacancy>>

(* Mutant: the index has the name, the record is not filled.               *)
AddTrainUnfilled(name, id, t) ==
  /\ ~Found(train_id_index, name)
  /\ ~Found(trains, id)
  /\ train_id_index' = Insert(train_id_index, name, id)
  /\ UNCHANGED <<trains, released, vacancy, station_train_index>>

(* Mutant: the record of an older train is used again.                     *)
AddTrainReusingRecord(name, id, t) ==
  /\ ~Found(train_id_index, name)
  /\ train_id_index' = Insert(train_id_index, name, id)
  /\ trains' = SetValue(trains, id, TrainInfo(name, t))
  /\ UNCHANGED <<released, vacancy, station_train_index>>

(* id is the address of the new record: the store never reuses one.        *)
AddTrain(name, id, t) ==
  /\ ~Found(train_id_index, name)
  /\ ~Found(trains, id)
  /\ train_id_index' = Insert(train_id_index, name, id)
  /\ trains' = Insert(trains, id, TrainInfo(name, t))
  /\ UNCHANGED <<released, vacancy, station_train_index>>

(* Mutant: a released train can be deleted too.                            *)
DeleteAnyTrain(name) ==
  /\ Found(train_id_index, name)
  /\ train_id_index' = Remove(train_id_index, {name})
  /\ UNCHANGED <<trains, released, vacancy, station_train_index>>

(* The record stays where it is; only its name is forgotten.               *)
DeleteTrain(name) ==
  /\ Found(train_id_index, name)
  /\ train_id_index[name] \notin released
  /\ train_id_index' = Remove(train_id_index, {name})
  /\ UNCHANGED <<trains, released, vacancy, station_train_index>>

(* The batches that hold a day on sale.                                    *)
Batches(t) == t.date_beg \div DATE_BATCH_SIZE .. t.date_end \div DATE_BATCH_SIZE

FullRow(t) ==
  [j \in 0 .. DATE_BATCH_SIZE * (t.station_count - 1) - 1 |-> t.seat_count]

StationsOf(id) ==
  {trains[id].stations[i] : i \in 0 .. trains[id].station_count - 1}

ReleaseTrain(name) ==
  /\ Found(train_id_index, name)
  /\ LET id == train_id_index[name]
         new == {id} \X Batches(trains[id])
     IN /\ id \notin released
        /\ released' = released \cup {id}
        /\ vacancy' = [k \in DOMAIN vacancy \cup new |->
                         IF k \in new THEN FullRow(trains[id]) ELSE vacancy[k]]
        /\ station_train_index' =
             station_train_index \cup (StationsOf(id) \X {id})
  /\ UNCHANGED <<train_id_index, trains>>

(* The command clean: a new, empty database.                               *)
TrainClean ==
  /\ train_id_index' = EmptyMap
  /\ trains' = EmptyMap
  /\ released' = {}
  /\ vacancy' = EmptyMap
  /\ station_train_index' = {}

TrainCommand ==
  \/ \E name \in TrainNames, id \in TrainIds, t \in TrainInputs :
       AddTrain(name, id, t)
  \/ \E name \in TrainNames : DeleteTrain(name)
  \/ \E name \in TrainNames : ReleaseTrain(name)

TrainNext == TrainCommand \/ TrainClean

TrainSpec == TrainInit /\ [][TrainNext]_trainVars

-----------------------------------------------------------------------------
(* Every index and record has its type, and the index leads to records.    *)
TrainTypeOK ==
  /\ DOMAIN train_id_index \subseteq TrainNames
  /\ \A name \in DOMAIN train_id_index :
       train_id_index[name] \in DOMAIN trains
  /\ DOMAIN trains \subseteq TrainIds
  /\ \A id \in DOMAIN trains : IsTrainInput(trains[id])
  /\ released \subseteq DOMAIN trains
  /\ station_train_index \subseteq Stations \X DOMAIN trains

(* A record is reached through the name it keeps and no other, and a       *)
(* released train is always reached: what the queries print can be bought  *)
(* under the name printed, and what DeleteTrain forgets was never on sale. *)
NamesExact ==
  /\ \A name \in DOMAIN train_id_index :
       trains[train_id_index[name]].train_name = name
  /\ \A id \in released :
       \E name \in DOMAIN train_id_index : train_id_index[name] = id

(* station_train_index, from which query_ticket and query_transfer start,  *)
(* lists a train at exactly the stations of the released trains: no train  *)
(* that was deleted or not yet released, no released train missing.        *)
StationIndexExact ==
  \A s \in Stations, id \in DOMAIN trains :
    <<s, id>> \in station_train_index <=>
      id \in released /\ s \in StationsOf(id)

Location(id, date, i) == <<GetVacancyId(id, date), Slot(id, date, i)>>

OnSaleLegs(id) ==
  (trains[id].date_beg .. trains[id].date_end)
    \X (0 .. trains[id].station_count - 2)

(* The times of a record are durations since the departure from the first  *)
(* station (train_manager.h:29): along the route they do not go back.      *)
TimesAscend ==
  \A id \in DOMAIN trains :
    \A i \in 1 .. trains[id].station_count - 1 :
      /\ trains[id].leave_time[i - 1] <= trains[id].arrive_time[i]
      /\ trains[id].arrive_time[i] <= trains[id].leave_time[i]

(* Every day and leg of a released train has a place of its own in the     *)
(* Vacancy records, inside the record of its batch: the flat layout, the   *)
(* modulus and the first and the last batch leave no day without a place,  *)
(* none outside its array and no two in the same.  No unreleased train has *)
(* a Vacancy record.                                                       *)
EverySeatHasAPlace ==
  /\ \A id \in released : \A d1, d2 \in OnSaleLegs(id) :
       /\ GetVacancyId(id, d1[1]) \in DOMAIN vacancy
       /\ Slot(id, d1[1], d1[2]) \in DOMAIN vacancy[GetVacancyId(id, d1[1])]
       /\ Location(id, d1[1], d1[2]) = Location(id, d2[1], d2[2]) => d1 = d2
  /\ \A k \in DOMAIN vacancy : k[1] \in released

(* The day asked for and the day sold agree: whoever asks to leave station *)
(* no on a day and is given the train that departs on GetDepartDate is     *)
(* shown, by GetLeaveTime, a departure on the day asked for.  The trains   *)
(* of the check cross midnight.                                            *)
LeavesOnDayAsked ==
  \A id \in DOMAIN trains :
    \A no \in 0 .. trains[id].station_count - 2,
       date \in trains[id].date_beg .. trains[id].date_end + 2 :
      GetLeaveTime(id, GetDepartDate(id, date, no), no) \div 1440 = date

(* Once released, a train keeps its record, its name, its places and its   *)
(* listings, whatever is added, deleted or released later; only clean ends *)
(* it.                                                                     *)
KeepsTrain(id) ==
  /\ id \in released'
  /\ trains'[id] = trains[id]
  /\ \A name \in DOMAIN train_id_index : train_id_index[name] = id =>
       Found(train_id_index', name) /\ train_id_index'[name] = id
  /\ \A k \in DOMAIN vacancy : k[1] = id =>
       Found(vacancy', k) /\ DOMAIN vacancy'[k] = DOMAIN vacancy[k]
  /\ \A s \in StationsOf(id) : <<s, id>> \in station_train_index'

KeepsReleased == trains' # EmptyMap => \A id \in released : KeepsTrain(id)

ReleasedStays == [][KeepsReleased]_trainVars
=============================================================================
