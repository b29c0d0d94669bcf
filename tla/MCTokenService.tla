--------------------------- MODULE MCTokenService ---------------------------
(* Small instances of TokenService. *)
EXTENDS TokenService

AllStrays == Strays
=============================================================================
