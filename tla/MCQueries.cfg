SPECIFICATION TrainSpec
CONSTANTS
  TrainNames = {1, 2, 3}
  TrainIds = {1, 2, 3}
  Stations = {"a", "b", "c", "d"}
  TrainInputs <- MCTrainInputs
  DATE_BATCH_SIZE = 2
  QueryDays <- MCQueryDays
  QueryStations = {"a", "b", "c", "d"}
INVARIANTS
  TrainTypeOK
  NamesExact
  StationIndexExact
  EverySeatHasAPlace
  LeavesOnDayAsked
  TicketsExact
  TransferBest
PROPERTIES
  ReleasedStays
