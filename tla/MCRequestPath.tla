--------------------------- MODULE MCRequestPath ---------------------------
(* Finite instances of RequestPath for TLC. *)
EXTENDS RequestPath

CONSTANTS a1, a2
=============================================================================
