------------------------- MODULE TrainManagerProofs -------------------------
(***************************************************************************)
(* Type correctness of TrainManager, the agreement of its indices, and the *)
(* layout of the vacancies: every day and leg on sale has a place of its   *)
(* own, for any number of stations and any batch size.                     *)
(***************************************************************************)
EXTENDS TrainManager, TLAPS

(* What is in the store of Vacancy records: one row per batch of the sale  *)
(* of each released train, of DATE_BATCH_SIZE times the number of legs.    *)
VacancyShape ==
  /\ DOMAIN vacancy \subseteq TrainIds \X Int
  /\ \A id \in TrainIds, b \in Int :
       <<id, b>> \in DOMAIN vacancy <=>
         id \in released /\ b \in Batches(trains[id])
  /\ \A id \in released : \A b \in Batches(trains[id]) :
       DOMAIN vacancy[<<id, b>>]
         = 0 .. DATE_BATCH_SIZE * (trains[id].station_count - 1) - 1

(* The inductive invariant.  StationIndexExact needs the type, which says  *)
(* that the index mentions no record the store has not given out yet;      *)
(* EverySeatHasAPlace follows from VacancyShape and arithmetic.            *)
TrainInv == TrainTypeOK /\ NamesExact /\ StationIndexExact /\ VacancyShape

LEMMA TrainInitInv ==
  ASSUME TrainInit
  PROVE  TrainInv
  BY DEF TrainInit, TrainInv, TrainTypeOK, NamesExact, StationIndexExact,
         VacancyShape, EmptyMap

(* add_train: a fresh record, in no index but that of the names.           *)
LEMMA AddTrainInv ==
  ASSUME TrainInv,
         NEW name \in TrainNames, NEW id \in TrainIds, NEW t \in TrainInputs,
         AddTrain(name, id, t)
  PROVE  TrainInv'
  <1>1. IsTrainInput(TrainInfo(name, t))
    BY TrainAssumption DEF IsTrainInput, TrainInfo
  <1>2. /\ DOMAIN trains' = DOMAIN trains \cup {id} /\ id \notin DOMAIN trains
        /\ trains'[id] = TrainInfo(name, t)
        /\ \A x \in DOMAIN trains : trains'[x] = trains[x]
    BY DEF AddTrain, Insert, Found
  <1>3. /\ DOMAIN train_id_index' = DOMAIN train_id_index \cup {name}
        /\ name \notin DOMAIN train_id_index
        /\ train_id_index'[name] = id
        /\ \A n \in DOMAIN train_id_index : train_id_index'[n] = train_id_index[n]
    BY DEF AddTrain, Insert, Found
  <1>4. UNCHANGED <<released, vacancy, station_train_index>>
    BY DEF AddTrain
  <1>5. TrainTypeOK'
    BY <1>1, <1>2, <1>3, <1>4 DEF TrainInv, TrainTypeOK
  <1>6. NamesExact'
    <2>1. trains'[id].train_name = name
      BY <1>2 DEF TrainInfo
    <2> QED
      BY <2>1, <1>2, <1>3, <1>4 DEF TrainInv, TrainTypeOK, NamesExact
  <1>7. StationIndexExact'
    <2>1. \A x \in DOMAIN trains : StationsOf(x)' = StationsOf(x)
      BY <1>2 DEF StationsOf
    <2>2. \A s \in Stations :
            <<s, id>> \notin station_train_index /\ id \notin released
      BY <1>2 DEF TrainInv, TrainTypeOK
    <2> QED
      BY <1>2, <1>4, <2>1, <2>2 DEF TrainInv, StationIndexExact
  <1>8. VacancyShape'
    BY <1>2, <1>4 DEF TrainInv, TrainTypeOK, VacancyShape, Batches
  <1> QED
    BY <1>5, <1>6, <1>7, <1>8 DEF TrainInv

(* delete_train: no released train loses its name.                         *)
LEMMA DeleteTrainInv ==
  ASSUME TrainInv, NEW name \in TrainNames, DeleteTrain(name)
  PROVE  TrainInv'
  <1>1. /\ DOMAIN train_id_index' = DOMAIN train_id_index \ {name}
        /\ \A n \in DOMAIN train_id_index' : train_id_index'[n] = train_id_index[n]
    BY DEF DeleteTrain, Remove
  <1>2. UNCHANGED <<trains, released, vacancy, station_train_index>>
    BY DEF DeleteTrain
  <1>3. TrainTypeOK'
    BY <1>1, <1>2 DEF TrainInv, TrainTypeOK
  <1>4. NamesExact'
    BY <1>1, <1>2 DEF TrainInv, NamesExact, DeleteTrain
  <1>5. StationIndexExact' /\ VacancyShape'
    BY <1>2 DEF TrainInv, StationIndexExact, StationsOf, VacancyShape, Batches
  <1> QED
    BY <1>3, <1>4, <1>5 DEF TrainInv

(* release_train: the rows of the train are created and its listings made. *)
LEMMA ReleaseTrainInv ==
  ASSUME TrainInv, NEW name \in TrainNames, ReleaseTrain(name)
  PROVE  TrainInv'
  <1> DEFINE id == train_id_index[name]
             new == {id} \X Batches(trains[id])
  <1>1. /\ id \in DOMAIN trains /\ id \in TrainIds /\ id \notin released
        /\ IsTrainInput(trains[id])
        /\ released' = released \cup {id}
        /\ vacancy' = [k \in DOMAIN vacancy \cup new |->
                         IF k \in new THEN FullRow(trains[id]) ELSE vacancy[k]]
        /\ station_train_index' =
             station_train_index \cup (StationsOf(id) \X {id})
        /\ UNCHANGED <<train_id_index, trains>>
    BY DEF TrainInv, TrainTypeOK, ReleaseTrain, Found
  <1> HIDE DEF id
  <1>2. StationsOf(id) \subseteq Stations
    BY <1>1 DEF StationsOf, IsTrainInput
  <1>3. TrainTypeOK'
    BY <1>1, <1>2 DEF TrainInv, TrainTypeOK
  <1>4. NamesExact'
    BY <1>1 DEF TrainInv, NamesExact, ReleaseTrain, Found, id
  <1>5. StationIndexExact'
    <2>1. \A x \in DOMAIN trains : StationsOf(x)' = StationsOf(x)
      BY <1>1 DEF StationsOf
    <2> QED
      BY <1>1, <2>1 DEF TrainInv, StationIndexExact
  <1>6. Batches(trains[id]) \subseteq Int
    BY DEF Batches
  <1>7. VacancyShape'
    <2>1. DOMAIN vacancy' = DOMAIN vacancy \cup new
      BY <1>1
    <2>2. \A x \in TrainIds, b \in Int :
            <<x, b>> \in new <=> x = id /\ b \in Batches(trains[id])
      OBVIOUS
    <2>3. DOMAIN vacancy' \subseteq TrainIds \X Int
      BY <1>1, <1>6, <2>1 DEF TrainInv, VacancyShape
    <2>4. \A x \in TrainIds, b \in Int :
            <<x, b>> \in DOMAIN vacancy' <=>
              x \in released' /\ b \in Batches(trains'[x])
      BY <1>1, <2>1, <2>2 DEF TrainInv, VacancyShape, Batches
    <2>5. ASSUME NEW x \in released', NEW b \in Batches(trains'[x])
          PROVE  DOMAIN vacancy'[<<x, b>>]
                   = 0 .. DATE_BATCH_SIZE * (trains'[x].station_count - 1) - 1
      <3>1. x \in TrainIds /\ b \in Int
        BY <1>3 DEF TrainTypeOK, Batches
      <3>2. CASE x = id
        BY <1>1, <2>2, <3>1, <3>2 DEF FullRow
      <3>3. CASE x # id
        <4>1. x \in released /\ b \in Batches(trains[x])
          BY <1>1, <3>3
        <4>2. vacancy'[<<x, b>>] = vacancy[<<x, b>>]
          BY <1>1, <2>2, <3>1, <3>3, <4>1 DEF TrainInv, VacancyShape
        <4> QED
          BY <1>1, <4>1, <4>2 DEF TrainInv, VacancyShape
      <3> QED
        BY <3>2, <3>3
    <2> QED
      BY <2>3, <2>4, <2>5 DEF VacancyShape
  <1> QED
    BY <1>3, <1>4, <1>5, <1>7 DEF TrainInv

LEMMA TrainCleanInv ==
  ASSUME TrainClean
  PROVE  TrainInv'
  BY DEF TrainClean, TrainInv, TrainTypeOK, NamesExact, StationIndexExact,
         VacancyShape, EmptyMap

(* A step that changes no more than the numbers in the rows.               *)
LEMMA TrainRowsInv ==
  ASSUME TrainInv,
         UNCHANGED <<train_id_index, trains, released, station_train_index>>,
         DOMAIN vacancy' = DOMAIN vacancy,
         \A k \in DOMAIN vacancy : DOMAIN vacancy'[k] = DOMAIN vacancy[k]
  PROVE  TrainInv'
  BY DEF TrainInv, TrainTypeOK, NamesExact, StationIndexExact, StationsOf,
         VacancyShape, Batches

LEMMA TrainNextInv ==
  ASSUME TrainInv, [TrainNext]_trainVars
  PROVE  TrainInv'
  <1>1. CASE TrainCommand
    BY <1>1, AddTrainInv, DeleteTrainInv, ReleaseTrainInv DEF TrainCommand
  <1>2. CASE TrainClean
    BY <1>2, TrainCleanInv
  <1>3. CASE UNCHANGED trainVars
    BY <1>3, TrainRowsInv DEF trainVars
  <1> QED
    BY <1>1, <1>2, <1>3 DEF TrainNext

(* In every reachable state, for any trains and any batch size, the        *)
(* records have their types, the names and the station lists agree with    *)
(* the records.                                                            *)
THEOREM TrainIndicesAgree ==
  TrainSpec => [](TrainTypeOK /\ NamesExact /\ StationIndexExact)
  <1>1. TrainInit => TrainInv
    BY TrainInitInv
  <1>2. TrainInv /\ [TrainNext]_trainVars => TrainInv'
    BY TrainNextInv
  <1>3. TrainInv => TrainTypeOK /\ NamesExact /\ StationIndexExact
    BY DEF TrainInv
  <1> QED
    BY <1>1, <1>2, <1>3, PTL DEF TrainSpec

(* The two parts a reader may look for on their own: every record has its  *)
(* type, and every train answers to the name it prints.                    *)
THEOREM TrainTypesHold == TrainSpec => []TrainTypeOK
  BY TrainIndicesAgree, PTL

THEOREM NamesAgree == TrainSpec => []NamesExact
  BY TrainIndicesAgree, PTL

-----------------------------------------------------------------------------
(* Arithmetic of the batches: the remainder is a day of the batch,         *)
(* division by the batch size is monotone, and both determine the date.    *)
LEMMA BatchOfDay ==
  ASSUME NEW a \in Int
  PROVE  /\ a \div DATE_BATCH_SIZE \in Int
         /\ (a % DATE_BATCH_SIZE) \in 0 .. DATE_BATCH_SIZE - 1
         /\ (a % DATE_BATCH_SIZE) \in Nat
  BY TrainAssumption

LEMMA BatchMonotone ==
  ASSUME NEW a \in Int, NEW b \in Int, a <= b
  PROVE  a \div DATE_BATCH_SIZE <= b \div DATE_BATCH_SIZE
  BY TrainAssumption

LEMMA DayUnique ==
  ASSUME NEW a \in Int, NEW b \in Int,
         a \div DATE_BATCH_SIZE = b \div DATE_BATCH_SIZE,
         a % DATE_BATCH_SIZE = b % DATE_BATCH_SIZE
  PROVE  a = b
  BY TrainAssumption

(* Places of day r of the batch and leg i in an array with m legs a day.   *)
LEMMA PlaceInArray ==
  ASSUME NEW m \in Nat \ {0},
         NEW r \in 0 .. DATE_BATCH_SIZE - 1, NEW i \in 0 .. m - 1
  PROVE  r * m + i \in 0 .. DATE_BATCH_SIZE * m - 1
  <1>1. (r + 1) * m <= DATE_BATCH_SIZE * m
    BY TrainAssumption
  <1>2. (r + 1) * m = r * m + m /\ r * m >= 0
    OBVIOUS
  <1> QED
    BY <1>1, <1>2, TrainAssumption

LEMMA PlaceUnique ==
  ASSUME NEW m \in Nat \ {0},
         NEW r \in Nat, NEW i \in 0 .. m - 1,
         NEW q \in Nat, NEW j \in 0 .. m - 1,
         r * m + i = q * m + j
  PROVE  r = q /\ i = j
  <1>1. ~(r + 1 <= q)
    <2> SUFFICES ASSUME r + 1 <= q PROVE FALSE
      OBVIOUS
    <2>1. (r + 1) * m <= q * m /\ (r + 1) * m = r * m + m
      OBVIOUS
    <2> QED
      BY <2>1
  <1>2. ~(q + 1 <= r)
    <2> SUFFICES ASSUME q + 1 <= r PROVE FALSE
      OBVIOUS
    <2>1. (q + 1) * m <= r * m /\ (q + 1) * m = q * m + m
      OBVIOUS
    <2> QED
      BY <2>1
  <1>3. r = q
    BY <1>1, <1>2
  <1> QED
    BY <1>3

(* The place of a day on sale and a leg lies in a row that exists.         *)
LEMMA PlaceExists ==
  ASSUME TrainInv, NEW id \in released,
         NEW date \in trains[id].date_beg .. trains[id].date_end,
         NEW i \in 0 .. trains[id].station_count - 2
  PROVE  /\ GetVacancyId(id, date) \in DOMAIN vacancy
         /\ DOMAIN vacancy[GetVacancyId(id, date)]
              = 0 .. DATE_BATCH_SIZE * (trains[id].station_count - 1) - 1
         /\ Slot(id, date, i) \in DOMAIN vacancy[GetVacancyId(id, date)]
  <1>1. id \in TrainIds /\ IsTrainInput(trains[id])
    BY DEF TrainInv, TrainTypeOK
  <1>2. /\ trains[id].station_count \in Nat /\ trains[id].station_count >= 2
        /\ trains[id].date_beg \in Nat /\ trains[id].date_end \in Nat
        /\ date \in Int /\ trains[id].date_beg <= date /\ date <= trains[id].date_end
    BY <1>1 DEF IsTrainInput
  <1>3. date \div DATE_BATCH_SIZE \in Batches(trains[id])
    <2> DEFINE beg == trains[id].date_beg
               end == trains[id].date_end
    <2>1. beg \in Int /\ end \in Int /\ date \in Int /\ beg <= date /\ date <= end
      BY <1>2
    <2>2. date \div DATE_BATCH_SIZE
            \in beg \div DATE_BATCH_SIZE .. end \div DATE_BATCH_SIZE
      <3> HIDE DEF beg, end
      <3>1. beg \div DATE_BATCH_SIZE <= date \div DATE_BATCH_SIZE
        BY <2>1, BatchMonotone
      <3>2. date \div DATE_BATCH_SIZE <= end \div DATE_BATCH_SIZE
        BY <2>1, BatchMonotone
      <3> QED
        BY <2>1, <3>1, <3>2, BatchOfDay
    <2> QED
      BY <2>2 DEF Batches
  <1>4. GetVacancyId(id, date) \in DOMAIN vacancy
    BY <1>1, <1>2, <1>3, BatchOfDay DEF TrainInv, VacancyShape, GetVacancyId
  <1>5. DOMAIN vacancy[GetVacancyId(id, date)]
          = 0 .. DATE_BATCH_SIZE * (trains[id].station_count - 1) - 1
    BY <1>1, <1>3 DEF TrainInv, VacancyShape, GetVacancyId
  <1>6. Slot(id, date, i) \in
          0 .. DATE_BATCH_SIZE * (trains[id].station_count - 1) - 1
    <2>1. /\ trains[id].station_count - 1 \in Nat \ {0}
          /\ i \in 0 .. (trains[id].station_count - 1) - 1
      BY <1>2
    <2>2. (date % DATE_BATCH_SIZE) \in 0 .. DATE_BATCH_SIZE - 1
      BY <1>2, BatchOfDay
    <2> QED
      BY <2>1, <2>2, PlaceInArray DEF Slot
  <1> QED
    BY <1>4, <1>5, <1>6

(* Two days or legs on sale of one train never share a place.              *)
LEMMA PlacesDiffer ==
  ASSUME TrainInv, NEW id \in released,
         NEW d1 \in Nat, NEW i1 \in 0 .. trains[id].station_count - 2,
         NEW d2 \in Nat, NEW i2 \in 0 .. trains[id].station_count - 2,
         GetVacancyId(id, d1) = GetVacancyId(id, d2),
         Slot(id, d1, i1) = Slot(id, d2, i2)
  PROVE  d1 = d2 /\ i1 = i2
  <1>1. IsTrainInput(trains[id])
    BY DEF TrainInv, TrainTypeOK
  <1>2. /\ trains[id].station_count - 1 \in Nat \ {0}
        /\ (d1 % DATE_BATCH_SIZE) \in Nat
        /\ (d2 % DATE_BATCH_SIZE) \in Nat
        /\ i1 \in 0 .. (trains[id].station_count - 1) - 1
        /\ i2 \in 0 .. (trains[id].station_count - 1) - 1
    <2>1. trains[id].station_count \in Nat /\ trains[id].station_count >= 2
      BY <1>1 DEF IsTrainInput
    <2>2. d1 \in Int /\ d2 \in Int
      OBVIOUS
    <2>3. /\ (d1 % DATE_BATCH_SIZE) \in 0 .. DATE_BATCH_SIZE - 1
          /\ (d2 % DATE_BATCH_SIZE) \in 0 .. DATE_BATCH_SIZE - 1
      BY <2>2, BatchOfDay
    <2> QED
      BY <2>1, <2>3
  <1>3. d1 % DATE_BATCH_SIZE = d2 % DATE_BATCH_SIZE /\ i1 = i2
    BY <1>2, PlaceUnique DEF Slot
  <1>4. d1 \div DATE_BATCH_SIZE = d2 \div DATE_BATCH_SIZE
    BY DEF GetVacancyId
  <1> QED
    BY <1>3, <1>4, DayUnique

LEMMA PlacesFollow ==
  ASSUME TrainInv
  PROVE  EverySeatHasAPlace
  <1>1. ASSUME NEW id \in released,
               NEW d1 \in OnSaleLegs(id), NEW d2 \in OnSaleLegs(id)
        PROVE  /\ GetVacancyId(id, d1[1]) \in DOMAIN vacancy
               /\ Slot(id, d1[1], d1[2])
                    \in DOMAIN vacancy[GetVacancyId(id, d1[1])]
               /\ Location(id, d1[1], d1[2]) = Location(id, d2[1], d2[2])
                    => d1 = d2
    <2>1. /\ d1[1] \in trains[id].date_beg .. trains[id].date_end
          /\ d2[1] \in trains[id].date_beg .. trains[id].date_end
          /\ d1[2] \in 0 .. trains[id].station_count - 2
          /\ d2[2] \in 0 .. trains[id].station_count - 2
          /\ d1 = <<d1[1], d1[2]>> /\ d2 = <<d2[1], d2[2]>>
      BY DEF OnSaleLegs
    <2>2. d1[1] \in Nat /\ d2[1] \in Nat
      BY <2>1 DEF TrainInv, TrainTypeOK, IsTrainInput
    <2>3. Location(id, d1[1], d1[2]) = Location(id, d2[1], d2[2])
            => d1[1] = d2[1] /\ d1[2] = d2[2]
      BY <2>1, <2>2, PlacesDiffer DEF Location
    <2> QED
      BY <2>1, <2>3, PlaceExists
  <1>2. \A k \in DOMAIN vacancy : k[1] \in released
    BY DEF TrainInv, VacancyShape
  <1> QED
    BY <1>1, <1>2 DEF EverySeatHasAPlace

(* The flat layout gives every day and leg on sale a place of its own, for *)
(* every batch size, sale period and number of stations.                   *)
THEOREM LayoutIsExact == TrainSpec => []EverySeatHasAPlace
  <1>1. TrainInit => TrainInv
    BY TrainInitInv
  <1>2. TrainInv /\ [TrainNext]_trainVars => TrainInv'
    BY TrainNextInv
  <1>3. TrainInv => EverySeatHasAPlace
    BY PlacesFollow
  <1> QED
    BY <1>1, <1>2, <1>3, PTL DEF TrainSpec

-----------------------------------------------------------------------------
LEMMA TrainNextKeepsReleased ==
  ASSUME TrainInv, [TrainNext]_trainVars
  PROVE  [KeepsReleased]_trainVars
  <1> SUFFICES ASSUME TrainNext, trains' # EmptyMap, NEW id \in released
               PROVE  KeepsTrain(id)
    BY DEF KeepsReleased
  <1>1. id \in DOMAIN trains /\ IsTrainInput(trains[id])
    BY DEF TrainInv, TrainTypeOK
  <1>2. \A s \in StationsOf(id) : <<s, id>> \in station_train_index
    <2>1. StationsOf(id) \subseteq Stations
      BY <1>1 DEF StationsOf, IsTrainInput
    <2> QED
      BY <1>1, <2>1 DEF TrainInv, StationIndexExact
  <1>3. ASSUME NEW name \in TrainNames, NEW x \in TrainIds,
               NEW t \in TrainInputs, AddTrain(name, x, t)
        PROVE  KeepsTrain(id)
    BY <1>1, <1>2, <1>3 DEF AddTrain, Insert, Found, KeepsTrain
  <1>4. ASSUME NEW name \in TrainNames, DeleteTrain(name)
        PROVE  KeepsTrain(id)
    BY <1>1, <1>2, <1>4 DEF DeleteTrain, Remove, Found, KeepsTrain
  <1>5. ASSUME NEW name \in TrainNames, ReleaseTrain(name)
        PROVE  KeepsTrain(id)
    BY <1>1, <1>2, <1>5 DEF ReleaseTrain, Found, KeepsTrain
  <1> QED
    BY <1>3, <1>4, <1>5 DEF TrainNext, TrainCommand, TrainClean

(* A released train keeps its record, name, places and listings, whatever  *)
(* is added, deleted or released later.                                    *)
THEOREM ReleasedTrainsStay == TrainSpec => ReleasedStays
  <1>1. TrainInit => TrainInv
    BY TrainInitInv
  <1>2. TrainInv /\ [TrainNext]_trainVars => TrainInv'
    BY TrainNextInv
  <1>3. TrainInv /\ [TrainNext]_trainVars => [KeepsReleased]_trainVars
    BY TrainNextKeepsReleased
  <1> QED
    BY <1>1, <1>2, <1>3, PTL DEF TrainSpec, ReleasedStays

-----------------------------------------------------------------------------
(* The times of a record are those AddTrain computed from its arguments.   *)
RecordsFromInput ==
  \A id \in DOMAIN trains :
    \E name \in TrainNames, t \in TrainInputs : trains[id] = TrainInfo(name, t)

LEMMA RecordsComeFromInput ==
  ASSUME RecordsFromInput, [TrainNext]_trainVars
  PROVE  RecordsFromInput'
  <1>1. ASSUME NEW name \in TrainNames, NEW id \in TrainIds, NEW t \in TrainInputs,
               AddTrain(name, id, t)
        PROVE  RecordsFromInput'
    <2>1. /\ DOMAIN trains' = DOMAIN trains \cup {id}
          /\ trains'[id] = TrainInfo(name, t)
          /\ \A i \in DOMAIN trains : i # id => trains'[i] = trains[i]
      BY <1>1 DEF AddTrain, Insert, Found
    <2> QED
      BY <2>1 DEF RecordsFromInput
  <1>2. ASSUME NEW name \in TrainNames, DeleteTrain(name) \/ ReleaseTrain(name)
        PROVE  RecordsFromInput'
    BY <1>2 DEF DeleteTrain, ReleaseTrain, RecordsFromInput
  <1>3. CASE TrainClean
    BY <1>3 DEF TrainClean, EmptyMap, RecordsFromInput
  <1>4. CASE UNCHANGED trainVars
    BY <1>4 DEF trainVars, RecordsFromInput
  <1> QED
    BY <1>1, <1>2, <1>3, <1>4 DEF TrainNext, TrainCommand

(* No departure wraps to a negative time_t, as one 32768 minutes after the *)
(* first would; the run long_train has a train that breaks this.           *)
DeparturesFit ==
  \A t \in TrainInputs : \A no \in 0 .. t.station_count - 2 : LeaveTime(t)[no] \in Nat

LEMMA DayIsQuotient ==
  ASSUME NEW date \in Int, NEW minutes \in Nat
  PROVE  /\ DivC(minutes, 1440) \in Int
         /\ ((date - DivC(minutes, 1440)) * 1440 + minutes) \div 1440 = date
  BY DEF DivC

LEMMA DaysAgree ==
  ASSUME DeparturesFit, TrainTypeOK, RecordsFromInput
  PROVE  LeavesOnDayAsked
  <1> SUFFICES ASSUME NEW id \in DOMAIN trains,
                      NEW no \in 0 .. trains[id].station_count - 2,
                      NEW date \in trains[id].date_beg .. trains[id].date_end + 2
               PROVE  GetLeaveTime(id, GetDepartDate(id, date, no), no) \div 1440 = date
    BY DEF LeavesOnDayAsked
  <1>1. PICK name \in TrainNames, t \in TrainInputs : trains[id] = TrainInfo(name, t)
    BY DEF RecordsFromInput
  <1>2. /\ trains[id].leave_time = LeaveTime(t)
        /\ trains[id].station_count = t.station_count
    BY <1>1 DEF TrainInfo
  <1>3. /\ trains[id].depart_time \in 0 .. 1439 /\ trains[id].station_count \in Nat
        /\ trains[id].date_beg \in Nat /\ trains[id].date_end \in Nat
    BY DEF TrainTypeOK, IsTrainInput
  <1>4. trains[id].leave_time[no] \in Nat
    BY <1>2 DEF DeparturesFit
  <1>5. date \in Int /\ no # trains[id].station_count - 1
    BY <1>3
  <1> DEFINE depart == trains[id].depart_time
             leave == trains[id].leave_time[no]
             days == DivC(depart + leave, 1440)
  <1>6. /\ no = 0 => GetLeaveTime(id, GetDepartDate(id, date, no), no)
                       = date * 1440 + depart
        /\ no # 0 => GetLeaveTime(id, GetDepartDate(id, date, no), no)
                       = (date - days) * 1440 + depart + leave
    BY <1>5 DEF GetLeaveTime, GetDepartDate
  <1>7. depart \in 0 .. 1439
    BY <1>3
  <1>8. leave \in Nat
    BY <1>4
  <1> HIDE DEF depart, leave
  <1>9. (date * 1440 + depart) \div 1440 = date
    BY <1>5, <1>7
  <1>10. depart + leave \in Nat
    BY <1>7, <1>8
  <1>11. days \in Int /\ ((date - days) * 1440 + (depart + leave)) \div 1440 = date
    BY <1>5, <1>10, DayIsQuotient
  <1> HIDE DEF days
  <1>12. (date - days) * 1440 + depart + leave = (date - days) * 1440 + (depart + leave)
    BY <1>5, <1>7, <1>8, <1>11
  <1> QED
    BY <1>6, <1>9, <1>11, <1>12

(* Who asks to leave a station on a day is shown, by the train that is     *)
(* found for it, a departure on that day: across any number of midnights,  *)
(* as long as the times of the journey fit their type.                     *)
THEOREM TrainsLeaveOnDayAsked ==
  ASSUME DeparturesFit
  PROVE  TrainSpec => []LeavesOnDayAsked
  <1>1. TrainInit => RecordsFromInput
    BY DEF TrainInit, EmptyMap, RecordsFromInput
  <1>2. RecordsFromInput /\ [TrainNext]_trainVars => RecordsFromInput'
    BY RecordsComeFromInput
  <1>3. TrainTypeOK /\ RecordsFromInput => LeavesOnDayAsked
    BY DaysAgree
  <1> QED
    BY <1>1, <1>2, <1>3, TrainTypesHold, PTL DEF TrainSpec
=============================================================================
