SPECIFICATION Spec
CONSTANTS
  Users = {u1, u2}
  Privileges <- MCPrivileges
  MaxOrders = 2
  NoUser = NoUser
  NotLoggedIn = NotLoggedIn
  TrainNames = {"n1"}
  TrainIds = {1}
  Stations = {"a", "b"}
  TrainInputs <- MCTrainInputs
  DATE_BATCH_SIZE = 2
  BuyDates = {0, 1}
  SeatNos = {1}
  OrderNos = {1, 2}
  Leftovers <- MCLeftovers
  Idle = Idle
INVARIANTS
  TypeOK
  OrdersNumbered
  OrdersServable
