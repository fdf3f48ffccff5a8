-------------------------- MODULE UserManagerProofs --------------------------
(***************************************************************************)
(* Type correctness of UserManager, that sessions match profiles, and what *)
(* follows from it: the cached privilege that authorises a command is the  *)
(* stored one, so authority only flows down, and no order count is lost.   *)
(* The facts about single operations are lemmas, because TicketSystem runs *)
(* the same operations under a next-state relation of its own.             *)
(***************************************************************************)
EXTENDS UserManager, TLAPS

(* The inductive invariant.  Types alone are not inductive: ModifyProfile  *)
(* and Logout write a record of profiles for a user with a session, which  *)
(* is a record only because a session has a profile.                       *)
UserInv == UserTypeOK /\ SessionMatchesProfile

(* The constructor establishes the invariant.                              *)
LEMMA UserInitInv ==
  ASSUME UserInit
  PROVE  UserInv
  BY DEF UserInit, UserInv, UserTypeOK, SessionMatchesProfile, LoggedIn

(* add_user keeps the invariant: no session exists for a new profile.      *)
LEMMA AddUserInv ==
  ASSUME UserInv,
         NEW c \in Users, NEW u \in Users, NEW g \in Privileges,
         AddUser(c, u, g)
  PROVE  UserInv'
  <1>1. UserTypeOK'
    BY UserAssumption
    DEF UserInv, UserTypeOK, AddUser, UserProfile, ROOT_PRIVILEGE
  <1>2. ASSUME NEW v \in Users, LoggedIn(v)'
        PROVE  Registered(v) /\ v # u /\ profiles'[v] = profiles[v]
    BY <1>2
    DEF UserInv, UserTypeOK, SessionMatchesProfile, AddUser, LoggedIn, Registered
  <1>3. SessionMatchesProfile'
    BY <1>2
    DEF UserInv, SessionMatchesProfile, AddUser, LoggedIn, Registered
  <1> QED
    BY <1>1, <1>3 DEF UserInv

(* login copies the profile.                                               *)
LEMMA LoginInv ==
  ASSUME UserInv, NEW u \in Users, Login(u)
  PROVE  UserInv'
  <1>1. UserTypeOK'
    BY DEF UserInv, UserTypeOK, Login, Registered, UserProfile, UserData
  <1>2. profiles[u] \in UserProfile
    BY DEF UserInv, UserTypeOK, Login, Registered
  <1>3. SessionMatchesProfile'
    BY <1>2
    DEF UserInv, UserTypeOK, SessionMatchesProfile, Login, LoggedIn, Registered,
        UserProfile
  <1> QED
    BY <1>1, <1>3 DEF UserInv

(* What Logout and the destructor write is the profile with the count of   *)
(* the session, if there is one: when the comparison with the original     *)
(* count finds no change, the stored count is that of the session already. *)
LEMMA WriteBackValue ==
  ASSUME UserInv, NEW u \in Users
  PROVE  /\ WriteBack(u) \in UserProfile \cup {NoUser}
         /\ ~LoggedIn(u) => WriteBack(u) = profiles[u]
         /\ LoggedIn(u) =>
              /\ WriteBack(u) # NoUser
              /\ WriteBack(u).privilege = profiles[u].privilege
              /\ WriteBack(u).order_count = logged_in_users[u].order_count
  BY UserAssumption
  DEF UserInv, UserTypeOK, SessionMatchesProfile, WriteBack, LoggedIn,
      Registered, UserProfile, UserData

(* logout ends one session.                                                *)
LEMMA LogoutInv ==
  ASSUME UserInv, NEW u \in Users, Logout(u)
  PROVE  UserInv'
  <1>1. UserTypeOK'
    BY WriteBackValue DEF UserInv, UserTypeOK, Logout
  <1>2. SessionMatchesProfile'
    BY DEF UserInv, UserTypeOK, SessionMatchesProfile, Logout, LoggedIn, Registered
  <1> QED
    BY <1>1, <1>2 DEF UserInv

(* modify_profile writes the privilege to the profile and to the session.  *)
LEMMA ModifyProfileInv ==
  ASSUME UserInv,
         NEW c \in Users, NEW u \in Users, NEW g \in Privileges,
         ModifyProfile(c, u, g)
  PROVE  UserInv'
  <1>1. UserTypeOK'
    BY UserAssumption
    DEF UserInv, UserTypeOK, ModifyProfile, Registered, LoggedIn, UserProfile,
        UserData
  <1>2. profiles[u] \in UserProfile
    BY DEF UserInv, UserTypeOK, ModifyProfile, Registered
  <1>3. ASSUME NEW v \in Users, LoggedIn(v)'
        PROVE  /\ Registered(v)'
               /\ logged_in_users'[v].privilege = profiles'[v].privilege
               /\ logged_in_users'[v].original_order_count
                    = profiles'[v].order_count
               /\ logged_in_users'[v].order_count >= profiles'[v].order_count
    <2>1. LoggedIn(v) /\ logged_in_users[v] \in UserData
      BY <1>3 DEF UserInv, UserTypeOK, ModifyProfile, LoggedIn
    <2>2. CASE v = u
      BY <1>2, <2>1, <2>2, <1>1, UserAssumption
      DEF UserInv, UserTypeOK, SessionMatchesProfile, ModifyProfile, LoggedIn,
          Registered, UserProfile, UserData
    <2>3. CASE v # u
      BY <2>1, <2>3
      DEF UserInv, UserTypeOK, SessionMatchesProfile, ModifyProfile, LoggedIn,
          Registered
    <2> QED
      BY <2>2, <2>3
  <1> QED
    BY <1>1, <1>3 DEF UserInv, SessionMatchesProfile

(* BuyTicket's order_count++.                                              *)
LEMMA CountOrderInv ==
  ASSUME UserInv, NEW u \in Users, CountOrder(u)
  PROVE  UserInv'
  <1>1. UserTypeOK'
    BY DEF UserInv, UserTypeOK, CountOrder, LoggedIn, UserData
  <1>2. logged_in_users[u] \in UserData /\ profiles[u] \in UserProfile
    BY DEF UserInv, UserTypeOK, SessionMatchesProfile, CountOrder, LoggedIn,
           Registered
  <1>3. SessionMatchesProfile'
    BY <1>2, UserAssumption
    DEF UserInv, UserTypeOK, SessionMatchesProfile, CountOrder, LoggedIn,
        Registered, UserData, UserProfile
  <1> QED
    BY <1>1, <1>3 DEF UserInv

(* The destructor and a new process.                                       *)
LEMMA UserRestartInv ==
  ASSUME UserInv, UserRestart
  PROVE  UserInv'
  BY WriteBackValue
  DEF UserInv, UserTypeOK, SessionMatchesProfile, UserRestart, LoggedIn

(* clean.                                                                  *)
LEMMA UserCleanInv ==
  ASSUME UserClean
  PROVE  UserInv'
  BY DEF UserInv, UserTypeOK, SessionMatchesProfile, UserClean, LoggedIn

(* Steps of others.                                                        *)
LEMMA UserStutterInv ==
  ASSUME UserInv, UNCHANGED userVars
  PROVE  UserInv'
  BY DEF UserInv, UserTypeOK, SessionMatchesProfile, LoggedIn, Registered,
         userVars

LEMMA UserCommandInv ==
  ASSUME UserInv, UserCommand
  PROVE  UserInv'
  BY AddUserInv, LoginInv, LogoutInv, ModifyProfileInv DEF UserCommand

LEMMA UserNextInv ==
  ASSUME UserInv, [UserNext]_userVars
  PROVE  UserInv'
  <1>1. CASE UserCommand
    BY <1>1, UserCommandInv
  <1>2. CASE \E u \in Users : CountOrder(u)
    BY <1>2, CountOrderInv
  <1>3. CASE UserRestart
    BY <1>3, UserRestartInv
  <1>4. CASE UserClean
    BY <1>4, UserCleanInv
  <1>5. CASE UNCHANGED userVars
    BY <1>5, UserStutterInv
  <1> QED
    BY <1>1, <1>2, <1>3, <1>4, <1>5 DEF UserNext

(* In every reachable state of the user manager, of any size, profiles and *)
(* sessions have their types and every session matches its profile.        *)
THEOREM SessionsMatchProfiles ==
  UserSpec => [](UserTypeOK /\ SessionMatchesProfile)
  <1>1. UserInit => UserInv
    BY UserInitInv
  <1>2. UserInv /\ [UserNext]_userVars => UserInv'
    BY UserNextInv
  <1>3. UserInv => UserTypeOK /\ SessionMatchesProfile
    BY DEF UserInv
  <1> QED
    BY <1>1, <1>2, <1>3, PTL DEF UserSpec

(* The type on its own: profiles and sessions are records of their types.  *)
THEOREM UserTypesHold == UserSpec => []UserTypeOK
  BY SessionsMatchProfiles, PTL

-----------------------------------------------------------------------------
(* The argument that authority flows down: a command is authorised by the  *)
(* cached privilege, which is the stored one; -1, which stands for having  *)
(* no session, is more than no value of -g.                                *)
LEMMA AuthorisedByStored ==
  ASSUME UserInv, NEW c \in Users, NEW g \in Privileges,
         GetLoggedInUserPrivilege(c) > g
  PROVE  /\ LoggedIn(c)
         /\ profiles[c].privilege = GetLoggedInUserPrivilege(c)
         /\ profiles[c].privilege > g
  BY UserAssumption
  DEF UserInv, SessionMatchesProfile, GetLoggedInUserPrivilege, ABSENT

LEMMA AddUserFromAbove ==
  ASSUME UserInv,
         NEW c \in Users, NEW u \in Users, NEW g \in Privileges,
         AddUser(c, u, g)
  PROVE  GrantedFromAbove
  <1> SUFFICES ASSUME NEW v \in Users,
                      profiles'[v] # NoUser, ~NoUsers,
                      Registered(v) =>
                        profiles'[v].privilege # profiles[v].privilege
               PROVE  \E d \in Users : GrantedBy(d, v)
    BY DEF GrantedFromAbove
  <1>1. v = u /\ ~Registered(u)
    BY DEF UserInv, UserTypeOK, AddUser, Registered
  <1>2. profiles'[u].privilege = g
    BY DEF UserInv, UserTypeOK, AddUser
  <1>3. LoggedIn(c) /\ profiles[c].privilege > g
    BY AuthorisedByStored, UserAssumption
    DEF AddUser, UserInv, UserTypeOK, GetLoggedInUserPrivilege, UserData
  <1> QED
    BY <1>1, <1>2, <1>3 DEF GrantedBy

LEMMA ModifyProfileFromAbove ==
  ASSUME UserInv,
         NEW c \in Users, NEW u \in Users, NEW g \in Privileges,
         ModifyProfile(c, u, g)
  PROVE  GrantedFromAbove
  <1> SUFFICES ASSUME NEW v \in Users,
                      profiles'[v] # NoUser, ~NoUsers,
                      Registered(v) =>
                        profiles'[v].privilege # profiles[v].privilege
               PROVE  \E d \in Users : GrantedBy(d, v)
    BY DEF GrantedFromAbove
  <1>1. v = u
    BY DEF UserInv, UserTypeOK, ModifyProfile, Registered
  <1>2. profiles'[u].privilege = g
    BY DEF UserInv, UserTypeOK, ModifyProfile, Registered, UserProfile
  <1>3. /\ LoggedIn(c)
        /\ profiles[c].privilege = GetLoggedInUserPrivilege(c)
        /\ profiles[c].privilege > g
    BY AuthorisedByStored DEF ModifyProfile
  <1> QED
    BY <1>1, <1>2, <1>3 DEF GrantedBy, ModifyProfile

(* Writing counts back grants nothing.                                     *)
LEMMA WriteBackFromAbove ==
  ASSUME UserInv,
         \A v \in Users : profiles'[v] \in {profiles[v], WriteBack(v)}
  PROVE  GrantedFromAbove
  BY WriteBackValue
  DEF UserInv, UserTypeOK, SessionMatchesProfile, GrantedFromAbove, LoggedIn,
      Registered

LEMMA UserNextFromAbove ==
  ASSUME UserInv, [UserNext]_userVars
  PROVE  [GrantedFromAbove]_userVars
  <1>1. CASE \E c, u \in Users, g \in Privileges : AddUser(c, u, g)
    BY <1>1, AddUserFromAbove
  <1>2. CASE \E u \in Users : Login(u) \/ CountOrder(u)
    BY <1>2, WriteBackFromAbove DEF Login, CountOrder
  <1>3. CASE \E u \in Users : Logout(u)
    BY <1>3, WriteBackFromAbove DEF Logout, UserInv, UserTypeOK
  <1>4. CASE \E c, u \in Users, g \in Privileges : ModifyProfile(c, u, g)
    BY <1>4, ModifyProfileFromAbove
  <1>5. CASE UserRestart
    BY <1>5, WriteBackFromAbove DEF UserRestart
  <1>6. CASE UserClean
    BY <1>6 DEF UserClean, GrantedFromAbove
  <1> QED
    BY <1>1, <1>2, <1>3, <1>4, <1>5, <1>6 DEF UserNext, UserCommand

(* For any users and privileges, no command gives a user a privilege that  *)
(* is not strictly below one that a user with a session really has.        *)
THEOREM AuthorityFlowsDown == UserSpec => PrivilegeFlowsDown
  <1>1. UserInit => UserInv
    BY UserInitInv
  <1>2. UserInv /\ [UserNext]_userVars => UserInv'
    BY UserNextInv
  <1>3. UserInv /\ [UserNext]_userVars => [GrantedFromAbove]_userVars
    BY UserNextFromAbove
  <1> QED
    BY <1>1, <1>2, <1>3, PTL DEF UserSpec, PrivilegeFlowsDown

-----------------------------------------------------------------------------
(* The first user is registered when there is nobody; every later grant is *)
(* strictly below the stored privilege of a session, hence below the root. *)
LEMMA UserNextOneRoot ==
  ASSUME UserInv, OneRoot, [UserNext]_userVars
  PROVE  OneRoot'
  <1>t. profiles \in [Users -> UserProfile \cup {NoUser}]
    BY DEF UserInv, UserTypeOK
  <1>1. ASSUME NEW c \in Users, NEW u \in Users, NEW g \in Privileges,
               AddUser(c, u, g)
        PROVE  OneRoot'
    <2>1. CASE NoUsers
      BY <1>t, <1>1, <2>1
      DEF OneRoot, AddUser, NoUsers, Registered, ROOT_PRIVILEGE
    <2>2. CASE ~NoUsers
      <3>1. LoggedIn(c) /\ profiles[c].privilege > g
        BY <1>1, <2>2, AuthorisedByStored, UserAssumption
        DEF AddUser, UserInv, UserTypeOK, GetLoggedInUserPrivilege, UserData
      <3>2. g < ROOT_PRIVILEGE
        BY <3>1, <1>t, UserAssumption
        DEF UserInv, SessionMatchesProfile, OneRoot, ROOT_PRIVILEGE, UserProfile,
            Registered
      <3> QED
        BY <1>t, <1>1, <2>2, <3>2, UserAssumption
        DEF OneRoot, AddUser, Registered, ROOT_PRIVILEGE
    <2> QED
      BY <2>1, <2>2
  <1>2. ASSUME NEW c \in Users, NEW u \in Users, NEW g \in Privileges,
               ModifyProfile(c, u, g)
        PROVE  OneRoot'
    <2>1. LoggedIn(c) /\ profiles[c].privilege > g
      BY <1>2, AuthorisedByStored DEF ModifyProfile
    <2>2. g < ROOT_PRIVILEGE
      BY <2>1, <1>t, UserAssumption
      DEF UserInv, SessionMatchesProfile, OneRoot, ROOT_PRIVILEGE, UserProfile,
          Registered
    <2>3. profiles[u] \in UserProfile
      BY <1>2, <1>t DEF ModifyProfile, Registered
    <2> QED
      BY <1>t, <1>2, <2>2, <2>3, UserAssumption
      DEF OneRoot, ModifyProfile, Registered, ROOT_PRIVILEGE, UserProfile
  <1>3. ASSUME \A v \in Users : profiles'[v] \in {profiles[v], WriteBack(v)}
        PROVE  OneRoot'
    <2>1. \A v \in Users : Registered(v)' =>
            Registered(v) /\ profiles'[v].privilege = profiles[v].privilege
      BY <1>3, WriteBackValue
      DEF UserInv, SessionMatchesProfile, LoggedIn, Registered
    <2> QED
      BY <2>1 DEF OneRoot
  <1>4. CASE \E u \in Users : Login(u) \/ CountOrder(u)
    BY <1>3, <1>4 DEF Login, CountOrder
  <1>5. CASE \E u \in Users : Logout(u)
    BY <1>3, <1>5, <1>t DEF Logout
  <1>6. CASE UserRestart
    BY <1>3, <1>6 DEF UserRestart
  <1>7. CASE UserClean
    BY <1>7 DEF UserClean, OneRoot, Registered
  <1>8. CASE UNCHANGED userVars
    BY <1>3, <1>8 DEF userVars
  <1> QED
    BY <1>1, <1>2, <1>4, <1>5, <1>6, <1>7, <1>8 DEF UserNext, UserCommand

(* No sequence of commands gives a second user the root privilege.         *)
THEOREM RootIsUnique == UserSpec => []OneRoot
  <1>1. UserInit => UserInv /\ OneRoot
    BY UserInitInv DEF UserInit, OneRoot, Registered
  <1>2. UserInv /\ OneRoot /\ [UserNext]_userVars => UserInv' /\ OneRoot'
    BY UserNextInv, UserNextOneRoot
  <1> QED
    BY <1>1, <1>2, PTL DEF UserSpec

-----------------------------------------------------------------------------
(* Every operation but clean keeps every count or raises it.               *)
LEMMA UserNextCountsKept ==
  ASSUME UserInv, [UserNext]_userVars
  PROVE  [CountsKept]_userVars
  <1> USE DEF OrderCount, LoggedIn, Registered
  <1>t. /\ profiles \in [Users -> UserProfile \cup {NoUser}]
        /\ logged_in_users \in [Users -> UserData \cup {NotLoggedIn}]
    BY DEF UserInv, UserTypeOK
  <1>1. CASE \E c, u \in Users, g \in Privileges : AddUser(c, u, g)
    BY <1>1, <1>t DEF UserInv, SessionMatchesProfile, AddUser, CountsKept,
         UserProfile, UserData
  <1>2. CASE \E u \in Users : Login(u)
    BY <1>2, <1>t, UserAssumption DEF Login, CountsKept, UserProfile, UserData
  <1>3. CASE \E u \in Users : Logout(u)
    BY <1>3, <1>t, WriteBackValue DEF Logout, CountsKept, UserProfile, UserData
  <1>4. CASE \E c, u \in Users, g \in Privileges : ModifyProfile(c, u, g)
    BY <1>4, <1>t, UserAssumption
    DEF UserInv, SessionMatchesProfile, ModifyProfile, CountsKept, UserProfile,
        UserData
  <1>5. CASE \E u \in Users : CountOrder(u)
    BY <1>5, <1>t, UserAssumption DEF CountOrder, CountsKept, UserProfile, UserData
  <1>6. CASE UserRestart
    BY <1>6, <1>t, WriteBackValue
    DEF UserRestart, CountsKept, UserProfile, UserData
  <1>7. CASE UserClean
    BY <1>7 DEF UserClean, CountsKept
  <1> QED
    BY <1>1, <1>2, <1>3, <1>4, <1>5, <1>6, <1>7 DEF UserNext, UserCommand

(* No number of orders is lost by a logout, a login, a change of profile   *)
(* or a restart, for any number of users and orders.                       *)
THEOREM CountsSurvive == UserSpec => OrderCountKept
  <1>1. UserInit => UserInv
    BY UserInitInv
  <1>2. UserInv /\ [UserNext]_userVars => UserInv'
    BY UserNextInv
  <1>3. UserInv /\ [UserNext]_userVars => [CountsKept]_userVars
    BY UserNextCountsKept
  <1> QED
    BY <1>1, <1>2, <1>3, PTL DEF UserSpec, OrderCountKept
==============================================================================
