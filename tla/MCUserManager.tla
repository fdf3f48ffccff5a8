--------------------------- MODULE MCUserManager ----------------------------
(* Three users, the privileges 0, 2 and 10 and the missing -g, two orders. *)
EXTENDS UserManager

MCPrivileges == {-1, 0, 2, 10}
=============================================================================
