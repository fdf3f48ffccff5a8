SPECIFICATION FairSpec
CONSTANTS
  Users = {u1}
  Privileges <- MCPrivileges
  MaxOrders = 4
  NoUser = NoUser
  NotLoggedIn = NotLoggedIn
  TrainNames = {"n1"}
  TrainIds = {1}
  Stations = {"a", "b"}
  TrainInputs <- MCTrainInputs
  DATE_BATCH_SIZE = 2
  BuyDates = {1}
  SeatNos = {1, 2}
  OrderNos = {1, 2, 3, 4}
  Leftovers <- MCLeftovers
  Idle = Idle
PROPERTIES
  ImplementsLedger
  RefundEnds
