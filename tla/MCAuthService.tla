--------------------------- MODULE MCAuthService ---------------------------
(* Small instances of AuthService. *)
EXTENDS AuthService

\* The process finds one user in usercol, left over from an earlier run.
OnlyLeftover == {<<NewUser("o1", "alice")>>}
=============================================================================
