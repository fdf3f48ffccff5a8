SPECIFICATION TrainSpec
CONSTANTS
  TrainNames = {"n1"}
  TrainIds = {1}
  Stations = {"a", "b", "c", "d"}
  TrainInputs <- MCTrainInputs
  DATE_BATCH_SIZE = 2
INVARIANT TimesAscend
