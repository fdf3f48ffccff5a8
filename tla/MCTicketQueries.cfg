SPECIFICATION Spec
CONSTANTS
  Users = {u1}
  Privileges <- MCPrivileges
  MaxOrders = 3
  NoUser = NoUser
  NotLoggedIn = NotLoggedIn
  TrainNames = {1}
  TrainIds = {1}
  Stations = {"a", "b", "c"}
  TrainInputs <- MCTrainInputs
  DATE_BATCH_SIZE = 2
  BuyDates <- MCBuyDates
  SeatNos = {1, 2}
  OrderNos = {1, 2, 3}
  Leftovers <- MCLeftovers
  Idle = Idle
  QueryDays <- MCQueryDays
  QueryStations = {"a", "b", "c"}
INVARIANTS
  NoOversell
  SeatConservation
  NobodyWaitsForFreeSeats
  QueueMatchesOrders
  TrainAndTicketAgree
PROPERTIES
  OrderLifecycle
  FirstComeFirstServed
  TicketAsOffered
