SPECIFICATION Spec
CONSTANTS
  Users = {u1}
  Privileges <- MCPrivileges
  MaxOrders = 2
  NoUser = NoUser
  NotLoggedIn = NotLoggedIn
  TrainNames = {"n1"}
  TrainIds = {1}
  Stations = {"a", "b"}
  TrainInputs <- MCTrainInputs
  DATE_BATCH_SIZE = 2
  BuyDates = {1}
  SeatNos = {1}
  OrderNos = {0, 1}
  Leftovers <- MCLeftovers
  Idle = Idle
INVARIANT NextKeyFree
