SPECIFICATION UserSpec
CONSTANTS
  Users = {u1, u2, u3}
  Privileges <- MCPrivileges
  MaxOrders = 1
  NoUser = NoUser
  NotLoggedIn = NotLoggedIn
INVARIANTS
  UserTypeOK
  SessionMatchesProfile
  OneRoot
PROPERTIES
  PrivilegeFlowsDown
  OrderCountKept
CHECK_DEADLOCK TRUE
