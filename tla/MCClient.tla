------------------------------ MODULE MCClient ------------------------------
(* A small instance of Client. *)
EXTENDS Client
=============================================================================
