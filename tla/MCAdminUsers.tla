---------------------------- MODULE MCAdminUsers ----------------------------
(* An instance of AdminUsers for TLC.  The names other than the configured *)
(* one are alike.                                                          *)
EXTENDS AdminUsers, TLC

CONSTANTS admin

Symmetry == Permutations(Request) \cup Permutations(Token) \cup Permutations(Name \ {admin})
=============================================================================
