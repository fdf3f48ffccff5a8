---------------------------- MODULE UserManager -----------------------------
(***************************************************************************)
(* class UserManager: the persistent profiles (user_id_index_ and the      *)
(* UserProfile records of the variable-length store), the sessions kept in *)
(* memory (logged_in_users_), and the two values a session caches of its   *)
(* profile: the privilege and the number of orders.  Names are hashed, and *)
(* hashes are taken to be free of collisions; passwords, real names and    *)
(* e-mails carry no control beyond "the password is wrong, do nothing" and *)
(* are left out.  A command that fails changes nothing and is a stutter.   *)
(***************************************************************************)
EXTENDS Integers

CONSTANTS
  Users,        \* the usernames given to the commands
  Privileges,   \* the values of -g given to the commands, -1 when -g is absent
  MaxOrders,    \* bound: a user is given at most this many orders
  NoUser,       \* profiles[u] of a user not in user_id_index_
  NotLoggedIn   \* logged_in_users[u] of a user with no session

VARIABLES
  profiles,         \* user -> UserProfile, in the database file
  logged_in_users   \* user -> UserData, in memory

userVars == <<profiles, logged_in_users>>

ABSENT == -1            \* cli.cpp: -g is missing; also "not logged in"
ROOT_PRIVILEGE == 10    \* the privilege of the first user

UserProfile == [order_count : Nat, privilege : Int]
UserData ==
  [order_count : Nat, original_order_count : Nat, privilege : Int]

ASSUME UserAssumption ==
  /\ Privileges \subseteq Int
  /\ \A g \in Privileges : ABSENT <= g /\ g <= ROOT_PRIVILEGE
  /\ MaxOrders \in Nat
  /\ NoUser \notin UserProfile
  /\ NotLoggedIn \notin UserData

Registered(u) == profiles[u] # NoUser
LoggedIn(u) == logged_in_users[u] # NotLoggedIn
NoUsers == \A u \in Users : ~Registered(u)

GetLoggedInUserPrivilege(u) ==
  IF LoggedIn(u) THEN logged_in_users[u].privilege ELSE -1

UserInit ==
  /\ profiles = [u \in Users |-> NoUser]
  /\ logged_in_users = [u \in Users |-> NotLoggedIn]

-----------------------------------------------------------------------------
(* Mutant: <= where the code has <, a session grants its own privilege.    *)
AddUserAtMostOwn(cur_user, u, g) ==
  /\ NoUsers \/ g <= GetLoggedInUserPrivilege(cur_user)
  /\ ~Registered(u)
  /\ profiles' = [profiles EXCEPT ![u] =
       [order_count |-> 0,
        privilege |-> IF NoUsers THEN ROOT_PRIVILEGE ELSE g]]
  /\ UNCHANGED logged_in_users

(* The first user is registered with the root privilege and no session is  *)
(* asked for; afterwards a session must have more than the new privilege.  *)
AddUser(cur_user, u, g) ==
  /\ NoUsers \/ g < GetLoggedInUserPrivilege(cur_user)
  /\ ~Registered(u)
  /\ profiles' = [profiles EXCEPT ![u] =
       [order_count |-> 0,
        privilege |-> IF NoUsers THEN ROOT_PRIVILEGE ELSE g]]
  /\ UNCHANGED logged_in_users

Login(u) ==
  /\ ~LoggedIn(u)
  /\ Registered(u)
  /\ logged_in_users' = [logged_in_users EXCEPT ![u] =
       [order_count |-> profiles[u].order_count,
        original_order_count |-> profiles[u].order_count,
        privilege |-> profiles[u].privilege]]
  /\ UNCHANGED profiles

(* Mutant: the comparison the wrong way round, a changed count is dropped. *)
WriteBackUnchanged(u) ==
  IF LoggedIn(u) /\ logged_in_users[u].order_count
                      = logged_in_users[u].original_order_count
    THEN [profiles[u] EXCEPT !.order_count = logged_in_users[u].order_count]
    ELSE profiles[u]

(* The order count is written back only if the session changed it.         *)
WriteBack(u) ==
  IF LoggedIn(u) /\ logged_in_users[u].order_count
                      # logged_in_users[u].original_order_count
    THEN [profiles[u] EXCEPT !.order_count = logged_in_users[u].order_count]
    ELSE profiles[u]

Logout(u) ==
  /\ LoggedIn(u)
  /\ profiles' = [profiles EXCEPT ![u] = WriteBack(u)]
  /\ logged_in_users' = [logged_in_users EXCEPT ![u] = NotLoggedIn]

(* Mutant: the session of the modified user keeps the old privilege.       *)
ModifyProfileNoSync(cur_user, u, g) ==
  /\ GetLoggedInUserPrivilege(cur_user) > g
  /\ Registered(u)
  /\ cur_user = u \/ GetLoggedInUserPrivilege(cur_user) > profiles[u].privilege
  /\ g # ABSENT
  /\ profiles' = [profiles EXCEPT ![u].privilege = g]
  /\ UNCHANGED logged_in_users

(* -g absent (-1) leaves the privilege alone; the session of the modified  *)
(* user, if there is one, follows its profile.                             *)
ModifyProfile(cur_user, u, g) ==
  /\ GetLoggedInUserPrivilege(cur_user) > g
  /\ Registered(u)
  /\ cur_user = u \/ GetLoggedInUserPrivilege(cur_user) > profiles[u].privilege
  /\ g # ABSENT
  /\ profiles' = [profiles EXCEPT ![u].privilege = g]
  /\ logged_in_users' =
       IF LoggedIn(u) THEN [logged_in_users EXCEPT ![u].privilege = g]
                      ELSE logged_in_users

(* Mutant: the count goes the way of the key, -order_count++.              *)
CountOrderDown(u) ==
  /\ LoggedIn(u)
  /\ logged_in_users[u].order_count < MaxOrders
  /\ logged_in_users' = [logged_in_users EXCEPT ![u].order_count = @ - 1]
  /\ UNCHANGED profiles

(* What BuyTicket does of a session: order_count++.                        *)
CountOrder(u) ==
  /\ LoggedIn(u)
  /\ logged_in_users[u].order_count < MaxOrders
  /\ logged_in_users' = [logged_in_users EXCEPT ![u].order_count = @ + 1]
  /\ UNCHANGED profiles

(* ~UserManager writes every order count back; the next process starts     *)
(* with the profiles of the file and no session.                           *)
UserRestart ==
  /\ profiles' = [u \in Users |-> WriteBack(u)]
  /\ logged_in_users' = [u \in Users |-> NotLoggedIn]

(* The command clean: a new, empty database.                               *)
UserClean ==
  /\ profiles' = [u \in Users |-> NoUser]
  /\ logged_in_users' = [u \in Users |-> NotLoggedIn]

UserCommand ==
  \/ \E c, u \in Users, g \in Privileges : AddUser(c, u, g)
  \/ \E u \in Users : Login(u)
  \/ \E u \in Users : Logout(u)
  \/ \E c, u \in Users, g \in Privileges : ModifyProfile(c, u, g)

UserNext ==
  \/ UserCommand
  \/ \E u \in Users : CountOrder(u)
  \/ UserRestart
  \/ UserClean

UserSpec == UserInit /\ [][UserNext]_userVars

-----------------------------------------------------------------------------
(* The number of orders of a user, wherever the program keeps it now.      *)
OrderCount(u) ==
  IF LoggedIn(u) THEN logged_in_users[u].order_count
  ELSE IF Registered(u) THEN profiles[u].order_count ELSE 0

(* Every profile and session is a record of its type.                      *)
UserTypeOK ==
  /\ profiles \in [Users -> UserProfile \cup {NoUser}]
  /\ logged_in_users \in [Users -> UserData \cup {NotLoggedIn}]

(* A session's cached copy agrees with the profile: the user exists, the   *)
(* privilege that authorises its commands is the stored one, and the count *)
(* it was opened with is still the stored one.  (UserData, kept in step by *)
(* ModifyProfile and written back by Logout and by the destructor.)        *)
SessionMatchesProfile ==
  \A u \in Users : LoggedIn(u) =>
    /\ Registered(u)
    /\ logged_in_users[u].privilege = profiles[u].privilege
    /\ logged_in_users[u].original_order_count = profiles[u].order_count
    /\ logged_in_users[u].order_count >= profiles[u].order_count

(* No chain of registrations and modifications reaches the authority of    *)
(* the first user: nobody else ever has its privilege.                     *)
OneRoot ==
  \A u, v \in Users :
    /\ Registered(u) => profiles[u].privilege <= ROOT_PRIVILEGE
    /\ /\ Registered(u) /\ profiles[u].privilege = ROOT_PRIVILEGE
       /\ Registered(v) /\ profiles[v].privilege = ROOT_PRIVILEGE
       => u = v

(* A stored privilege only ever comes from above: whenever it is set, some *)
(* user with a session has, in its stored profile, strictly more than the  *)
(* new value, and more than the old one unless it changes its own.  The    *)
(* code decides by the privilege cached in the session.                    *)
GrantedBy(c, u) ==
  /\ LoggedIn(c)
  /\ profiles[c].privilege > profiles'[u].privilege
  /\ Registered(u) => c = u \/ profiles[c].privilege > profiles[u].privilege

GrantedFromAbove ==
  \A u \in Users :
    /\ profiles'[u] # NoUser
    /\ ~NoUsers
    /\ Registered(u) => profiles'[u].privilege # profiles[u].privilege
    => \E c \in Users : GrantedBy(c, u)

PrivilegeFlowsDown == [][GrantedFromAbove]_userVars

(* Orders once counted stay counted, through logout, login, a change of    *)
(* profile and a restart: order_count in the session, in the profile and   *)
(* original_order_count never lose one.  Only clean forgets.               *)
CountsKept ==
  (\E u \in Users : profiles'[u] # NoUser) =>
    \A u \in Users : OrderCount(u)' >= OrderCount(u)

OrderCountKept == [][CountsKept]_userVars

=============================================================================
