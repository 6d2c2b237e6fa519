---------------------------- MODULE MCMySQLProxy ----------------------------
(* Small instances of MySQLProxy: two owners with one username each. *)
EXTENDS MySQLProxy, TLC

CONSTANTS c1, c2, u1, u2, l1, l2, a1

Owners == (l1 :> u1) @@ (l2 :> u2)
=============================================================================
